---- MODULE Spec2Model ----
(***************************************************************************)
(* The mapping manager of s-rag (utils/mapping, utils/blobs, utils/searchers) *)
(* as a state machine over one blob store.                                 *)
(*                                                                         *)
(* The store holds four objects: the backend-id map file, the source-map   *)
(* file and the serialized blob of each search index.  Every object has a  *)
(* native lease (Azure blob lease: an id and a remaining duration).  A     *)
(* manager instance is one process with its own BlobContainerManager       *)
(* (lease registry), its own ChunkIndexMapping / ChunkBlobMapping memory   *)
(* and its own in-memory search indexes.  One step of the model is one     *)
(* call to the store (or one sleep); the local computation between two     *)
(* calls belongs to the step of the preceding call.                        *)
(*                                                                         *)
(* Time is counted in seconds: it advances retry_delay seconds per Tick     *)
(* while a manager sleeps, and lease_duration seconds per Pause.           *)
(***************************************************************************)
EXTENDS Integers, Sequences, FiniteSets, TLC

VARIABLES
    blob,     \* the store: object name -> stored bytes
    lease,    \* the store: object name -> native lease [id, ttl]
    mgr,      \* manager instance -> its local state (see InitMgr)
    nfaults,  \* number of failures of an external service injected so far
    npauses   \* number of long delays between two statements so far

vars == <<blob, lease, mgr, nfaults, npauses>>

---------------------------------------------------------------------------
(* Bounds of the model *)

MaxIds == 3
MaxTexts == 2
MaxFaults == 1
MaxPauses == 1
MaxTeardowns == 1
MaxDocs == 3

(* Program constants *)

max_retries == 12
retry_delay == 5
lease_duration == 20

---------------------------------------------------------------------------
(* Names *)

Managers == {1, 2}

IdxFile == "mapping/chunk_index_mapping.json"
BlobFile == "mapping/chunk_blob_mapping.json"
KwFile == "indexes/keyword_index"
VecFile == "indexes/vector_index"
MappingFiles == {IdxFile, BlobFile}

\* the objects the document processor keeps for a document: one per chunk, one
\* per page, one for the full text; and the document itself
ChunkFile(chunk_id) == "chunks/chunk_" \o chunk_id \o ".json"
ChunkFiles == {ChunkFile(ToString(n)) : n \in 0..(MaxIds - 1)}
DocName == "a.pdf"
PageFile == "pages/a.pdf_1.txt"
TextFile == "texts/a.pdf.txt"
DocFile == "docs/a.pdf"
Files == {IdxFile, BlobFile, KwFile, VecFile} \cup ChunkFiles \cup {PageFile, TextFile, DocFile}

\* the searchers dict handed to ChunkMappingManager, in insertion order
searchers == <<"keyword", "vector">>
SearcherNames == {searchers[j] : j \in 1..Len(searchers)}

DocContainer == "docs"
Sources == {"a.pdf"}

Text(i) == <<"t", i>>
TextLists == {[i \in 1..n |-> Text(i)] : n \in 0..MaxTexts}

EmptyMap == [k \in {} |-> 0]
MapPut(m, k, v) == [x \in DOMAIN m \cup {k} |-> IF x = k THEN v ELSE m[x]]
MapDel(m, k) == [x \in DOMAIN m \ {k} |-> m[x]]

\* A dict whose order of keys matters (ChunkBlobMapping.__mapping, iterated by
\* __update_reverse_mapping): the sequence of its <<key, value>> items.  An
\* assignment to a key the dict holds keeps the key's place, a new key goes to
\* the end, del takes the item out.
EmptyDict == <<>>
DictKeys(d) == {d[n][1] : n \in 1..Len(d)}
DictGet(d, k) == d[CHOOSE n \in 1..Len(d) : d[n][1] = k][2]
DictSet(d, k, v) ==
    IF k \in DictKeys(d)
    THEN [n \in 1..Len(d) |-> IF d[n][1] = k THEN <<k, v>> ELSE d[n]]
    ELSE Append(d, <<k, v>>)
DictDel(d, k) ==
    LET F[n \in 0..Len(d)] ==
          IF n = 0 THEN <<>>
          ELSE IF d[n][1] = k THEN F[n - 1] ELSE Append(F[n - 1], d[n])
    IN  F[Len(d)]
AsMap(d) == [k \in DictKeys(d) |-> DictGet(d, k)]

---------------------------------------------------------------------------
(* Stored bytes.  json.dumps / json.loads and pickle are modelled by what  *)
(* they do to a value: dumps wraps it in a document of its format, loads   *)
(* unwraps a document of that format and fails on anything else.           *)

Absent == [kind |-> "absent"]
EmptyBytes == [kind |-> "empty"]
JsonDumps(v) == [kind |-> "json", value |-> v]
IsJson(b) == b.kind = "json"
JsonLoads(b) == b.value
PickleDumps(v) == [kind |-> "pickle", value |-> v]

\* the metadata of a stored object (none on an object that was never given any)
Metadata(b) == IF "metadata" \in DOMAIN b THEN b.metadata ELSE EmptyMap
\* set_blob_metadata(existing_metadata.update(metadata))
SetMetadata(b, metadata) ==
    [x \in DOMAIN b \cup {"metadata"} |->
        IF x = "metadata"
        THEN [k \in DOMAIN Metadata(b) \cup DOMAIN metadata |->
                IF k \in DOMAIN metadata THEN metadata[k] ELSE Metadata(b)[k]]
        ELSE b[x]]

\* ChunkIndexMapping.__save_to_storage: {'id_counter': .., 'id_map': ..}
IndexMappingBytes(counter, idmap) ==
    JsonDumps([id_counter |-> counter, id_map |-> idmap])
\* ChunkBlobMapping.__save_to_storage: the forward mapping alone
BlobMappingBytes(mapping) == JsonDumps(mapping)

\* the key of the reverse mapping: f"{container}:{blob}"
SourceKey(container, blob_name) == container \o ":" \o blob_name

\* a reverse mapping that lists the newest chunk first
update_reverse_mapping_Prepend(mapping) ==
    LET F[n \in 0..Len(mapping)] ==
          IF n = 0 THEN EmptyMap
          ELSE LET key == SourceKey(mapping[n][2].container, mapping[n][2].blob)
                   r == F[n - 1]
               IN  MapPut(r, key, <<mapping[n][1]>> \o (IF key \in DOMAIN r THEN r[key] ELSE <<>>))
    IN  F[Len(mapping)]

\* ChunkBlobMapping.__update_reverse_mapping: the reverse mapping is built anew
\* from the items of the forward mapping, in their order
update_reverse_mapping(mapping) ==
    LET F[n \in 0..Len(mapping)] ==
          IF n = 0 THEN EmptyMap
          ELSE LET key == SourceKey(mapping[n][2].container, mapping[n][2].blob)
                   r == F[n - 1]
               IN  MapPut(r, key, Append(IF key \in DOMAIN r THEN r[key] ELSE <<>>,
                                         mapping[n][1]))
    IN  F[Len(mapping)]

\* ChunkBlobMapping.get_chunk_ids_by_blob
get_chunk_ids_by_blob(reverse_mapping, container, blob_name) ==
    IF SourceKey(container, blob_name) \in DOMAIN reverse_mapping
    THEN reverse_mapping[SourceKey(container, blob_name)]
    ELSE <<>>

\* ChunkBlobMapping.get_blob_info: mapping.get(chunk_id), None when absent
None == [kind |-> "none"]
get_blob_info(mapping, chunk_id) ==
    IF chunk_id \in DictKeys(mapping) THEN DictGet(mapping, chunk_id) ELSE None

\* a decodable backend-id map document carries both keys (json_data.get defaults
\* are not needed: the only writer is __save_to_storage)
IsIndexMapping(b) == IsJson(b) /\ DOMAIN b.value = {"id_counter", "id_map"}

---------------------------------------------------------------------------
(* The native lease of an object.  A lease id is a fresh uuid in the code; *)
(* the model names it by the manager that requested it and by the place    *)
(* it was requested from ("call": ChunkMappingManager.add/remove itself,   *)
(* "upload": the with_blob_lease wrapper).  A manager has at most one      *)
(* registry entry per object and overwrites it on every grant, so two ids  *)
(* that can meet at the store at the same time always differ.              *)

NoLease == [by |-> 0, at |-> "none"]
LeaseId(p, at) == [by |-> p, at |-> at]

Available == [id |-> NoLease, ttl |-> 0]
\* properties.lease.state == "leased"
IsLeased(l) == l.id # NoLease /\ l.ttl > 0
\* an expired lease keeps its id until it is released or the object is leased again
IsExpired(l) == l.id # NoLease /\ l.ttl = 0

\* client.acquire_lease(lease_duration): granted unless the object is leased
CanGrant(l) == ~IsLeased(l)
Granted(id) == [id |-> id, ttl |-> lease_duration]

\* lease_client.release(): frees the lease when the id is the object's lease id
\* (leased or expired); anything else is LeaseIdMismatch, which the code logs
\* a release that frees the object whoever holds its lease
StoreReleaseAny(l, id) == IF id # NoLease THEN Available ELSE l

StoreRelease(l, id) == IF id # NoLease /\ l.id = id THEN Available ELSE l

\* upload_blob(data, overwrite=True, lease=lease_id): the store accepts the
\* write only under the object's active lease
WriteAccepted(l, id) == IsLeased(l) /\ l.id = id

Max(a, b) == IF a > b THEN a ELSE b

---------------------------------------------------------------------------
(* The search indexes a searcher keeps in memory *)

\* the defaults of k1 and b
K1 == "1.5"
B == "0.75"

\* BM25IndexManager(): no ranking model, no documents, no tombstones.  active is
\* __active_indices, the positions the ranking model was built from; corpus is
\* the documents the ranking model was built from.
NewKeywordIndex ==
    [index |-> FALSE, docs |-> <<>>, deleted_flags |-> {}, active |-> <<>>,
     corpus |-> <<>>, k1 |-> K1, b |-> B]
\* VoyagerIndexManager(): an empty voyager Index
NewVectorIndex == [items |-> <<>>, deleted |-> {}]

\* the positions of docs that carry no tombstone, in ascending order
ActiveIndices(ki) ==
    LET F[n \in 0..Len(ki.docs)] ==
          IF n = 0 THEN <<>>
          ELSE IF (n - 1) \in ki.deleted_flags THEN F[n - 1] ELSE Append(F[n - 1], n - 1)
    IN  F[Len(ki.docs)]

\* BM25IndexManager.__update_index: BM25Okapi is built from the documents without
\* a tombstone, then __active_indices is set.  raises: what the ranking library
\* does when it is handed an empty corpus (it divides by the corpus size); when
\* it raises, the ranking model and __active_indices stay what they were.
UpdateRaises(ki, raises) == raises /\ ActiveIndices(ki) = <<>>
update_index_StaleActive(ki, raises) ==
    IF UpdateRaises(ki, raises) THEN ki
    ELSE [ki EXCEPT !.index = TRUE,
                    !.corpus = [n \in 1..Len(ActiveIndices(ki)) |->
                                  ki.docs[ActiveIndices(ki)[n] + 1]]]
update_index(ki, raises) ==
    IF UpdateRaises(ki, raises) THEN ki
    ELSE [ki EXCEPT !.index = TRUE,
                    !.corpus = [n \in 1..Len(ActiveIndices(ki)) |->
                                  ki.docs[ActiveIndices(ki)[n] + 1]],
                    !.active = ActiveIndices(ki)]

\* BM25IndexManager.add of one document: the position it gets is the document
\* count before the call; the tombstones are reset when there is no ranking
\* model or it was built from no document; the corpus is never empty afterwards
KeywordAdd(ki, text) ==
    update_index([ki EXCEPT !.docs = Append(@, text),
                            !.deleted_flags = IF ~ki.index \/ Len(ki.active) = 0
                                              THEN {} ELSE @],
                 FALSE)
KeywordNewId(ki) == Len(ki.docs)

\* BM25IndexManager.add of a list of documents (not empty): new_ids is
\* range(start_id, len(docs)) with start_id the document count before the call
AddIds_FirstFree(ki, documents) ==
    [n \in 1..Len(documents) |->
       IF ki.deleted_flags # {} /\ n = 1
       THEN CHOOSE i \in ki.deleted_flags : \A j \in ki.deleted_flags : i <= j
       ELSE Len(ki.docs) + n - 1]
AddIds(ki, documents) == [n \in 1..Len(documents) |-> Len(ki.docs) + n - 1]
KeywordAddAll(ki, documents) ==
    update_index([ki EXCEPT !.docs = @ \o documents,
                            !.deleted_flags = IF ~ki.index \/ Len(ki.active) = 0
                                              THEN {} ELSE @],
                 FALSE)

\* BM25IndexManager.remove: a state error on an index that holds no ranking
\* model; otherwise the tombstone is recorded and the ranking model rebuilt,
\* and what the rebuild raises is logged and raised again
KeywordRemoveRaises_NoStateError(ki, id, raises) ==
    UpdateRaises([ki EXCEPT !.deleted_flags =
                     IF 0 <= id /\ id < Len(ki.docs) THEN @ \cup {id} ELSE @], raises)
KeywordRemoveRaises(ki, id, raises) ==
    \/ ~ki.index
    \/ UpdateRaises([ki EXCEPT !.deleted_flags =
                        IF 0 <= id /\ id < Len(ki.docs) THEN @ \cup {id} ELSE @], raises)
KeywordRemove(ki, id, raises) ==
    update_index([ki EXCEPT !.deleted_flags =
                     IF 0 <= id /\ id < Len(ki.docs) THEN @ \cup {id} ELSE @], raises)

\* BM25IndexManager.unmark_deleted
UnmarkRaises(ki, id, raises) ==
    ~ki.index \/ UpdateRaises([ki EXCEPT !.deleted_flags = @ \ {id}], raises)
unmark_deleted(ki, id, raises) ==
    update_index([ki EXCEPT !.deleted_flags = @ \ {id}], raises)

\* BM25Okapi.get_scores, reduced to whether the document holds the query's term
Score(query, doc) == IF query = doc THEN 1 ELSE 0

Min(a, b) == IF a < b THEN a ELSE b

\* BM25IndexManager.search(query, k): nothing without a ranking model or when it
\* was built from no document; otherwise the k best of the documents the
\* ranking model was built from (a stable sort by descending score), each
\* named by its position in docs
\* sorted(enumerate(doc_scores), key=score, reverse=True)[:k]: the places of
\* the corpus of the ranking model, the best score first, equal scores in the
\* order of the corpus
TopN(ki, query, k) ==
    LET places == [i \in 1..Len(ki.corpus) |-> i]
        hit(i) == Score(query, ki.corpus[i]) = 1
        miss(i) == Score(query, ki.corpus[i]) = 0
        sorted == SelectSeq(places, hit) \o SelectSeq(places, miss)
    IN  SubSeq(sorted, 1, Min(k, Len(sorted)))
\* ids = [__active_indices[i] for i, _ in top_n]
BM25Search(ki, query, k) ==
    IF ~ki.index \/ Len(ki.active) = 0 THEN <<>>
    ELSE [n \in 1..Len(TopN(ki, query, k)) |-> ki.active[TopN(ki, query, k)[n]]]
\* scores = [score for _, score in top_n]
BM25Scores(ki, query, k) ==
    IF ~ki.index \/ Len(ki.active) = 0 THEN <<>>
    ELSE [n \in 1..Len(TopN(ki, query, k)) |->
            Score(query, ki.corpus[TopN(ki, query, k)[n]])]

\* VoyagerIndexManager.add of one vector: voyager numbers the records itself
VectorAdd(vi, text) == [vi EXCEPT !.items = Append(@, text)]
VectorNewId(vi) == Len(vi.items)

\* VoyagerIndexManager.remove: mark_deleted raises for an id the graph does not
\* hold or that is already marked
VectorRemoveRaises(vi, id) ==
    ~(0 <= id /\ id < Len(vi.items)) \/ id \in vi.deleted
VectorRemove(vi, id) == [vi EXCEPT !.deleted = @ \cup {id}]

\* VoyagerIndexManager.unmark_deleted: Index.unmark_deleted raises for an id the
\* graph does not hold or that is not marked
VectorUnmarkRaises(vi, id) == id \notin vi.deleted
VectorUnmark(vi, id) == [vi EXCEPT !.deleted = @ \ {id}]

\* VoyagerIndexManager.search(query_vector, k): Index.query returns the nearest
\* of the records that are not marked deleted, nearest first (the distance is
\* reduced to whether the record is the query's text); it raises when it is
\* asked for more neighbours than it finds (strict: whether it does)
VectorSearchRaises(vi, k, strict) ==
    strict /\ k > Len(vi.items) - Cardinality(vi.deleted)
VectorSearchIds_Unfiltered(vi, query, k) ==
    LET ids == [i \in 1..Len(vi.items) |-> i - 1]
        near(i) == vi.items[i + 1] = query
        far(i) == vi.items[i + 1] # query
        sorted == SelectSeq(ids, near) \o SelectSeq(ids, far)
    IN  SubSeq(sorted, 1, Min(k, Len(sorted)))
VectorSearchIds(vi, query, k) ==
    LET ids == [i \in 1..Len(vi.items) |-> i - 1]
        near(i) == i \notin vi.deleted /\ vi.items[i + 1] = query
        far(i) == i \notin vi.deleted /\ vi.items[i + 1] # query
        sorted == SelectSeq(ids, near) \o SelectSeq(ids, far)
    IN  SubSeq(sorted, 1, Min(k, Len(sorted)))

\* KeywordSearch.__load_or_create_index
\* (BM25IndexManager.load_from_byte rebuilds the ranking model of what export
\* pickled: the ranking model, the documents and the tombstones)
export(ki) ==
    PickleDumps([index |-> ki.index, corpus |-> ki.corpus, docs |-> ki.docs,
                 deleted_flags |-> ki.deleted_flags, k1 |-> ki.k1, b |-> ki.b])
\* export raises a state error on a manager without ranking model
ExportRaises(ki) == ~ki.index
\* cls(index=data['index'], docs=.., deleted_flags=.., k1=.., b=..) before
\* __init__ calls __update_index
Unpickled(b) ==
    [index |-> b.value.index, corpus |-> b.value.corpus, docs |-> b.value.docs,
     deleted_flags |-> b.value.deleted_flags, active |-> <<>>,
     k1 |-> b.value.k1, b |-> b.value.b]
LoadKeywordIndex(b) ==
    IF b.kind = "pickle" THEN update_index(Unpickled(b), FALSE) ELSE NewKeywordIndex
\* BM25IndexManager.load_from_byte(byte_data): pickle.loads raises on what is no
\* pickle, __init__ raises what the rebuild of the ranking model raises
LoadFromByteRaises(b, raises) ==
    b.kind # "pickle" \/ UpdateRaises(Unpickled(b), raises)
load_from_byte(b, raises) == update_index(Unpickled(b), raises)
\* VectorSearch.__load_or_create_index: an empty object is handed to Index.load
VectorLoadRaises(b) == b.kind = "empty"
LoadVectorIndex(b) == IF b.kind = "pickle" THEN b.value ELSE NewVectorIndex

---------------------------------------------------------------------------
(* The local state of one manager instance *)

NoCall ==
    [op |-> "none", step |-> "none", texts |-> <<>>, source |-> "",
     chunk_id |-> "", i |-> 1, j |-> 1, index_ids |-> EmptyMap, index_id |-> 0,
     added_chunks |-> <<>>, index_lease_id |-> NoLease, blob_lease_id |-> NoLease,
     result |-> "none",
     \* what the call has done so far (observation only)
     new_ids |-> 0, backend_calls |-> {}, backend_errors |-> {},
     mapping_errors |-> 0, writes |-> 0]

NoUpload ==
    [f |-> IdxFile, method |-> "upload", data |-> Absent, attempt |-> 0,
     lease_id |-> NoLease, raising |-> FALSE, then |-> "next"]

\* the locals of a run of the document processor (process_and_save_document
\* under index_queued_blobs, delete_document under check_deleted_blobs)
NoDoc ==
    [op |-> "none", phase |-> "none", texts |-> <<>>, chunk_ids |-> <<>>, k |-> 1,
     handler |-> FALSE, after |-> "none", exc |-> FALSE, result |-> "none",
     \* observation only: the chunk ids registered for the document when
     \* process_and_save_document was entered, and the ones its
     \* mapping_manager.add returned
     earlier |-> <<>>, created |-> <<>>]

NoBM25 == [op |-> "none", raised |-> FALSE, ids |-> <<>>, scores |-> <<>>]
NoVoyager == [op |-> "none", raised |-> FALSE, id |-> 0, ids |-> <<>>]
NoLeaseCall == [op |-> "none", duration |-> 0, raised |-> "none", requests |-> 0]
\* the locals of a call of BlobContainerManager.get_client; last and creates are
\* observation only: how the last create_container ended, and how many were sent
NoGetClient ==
    [pc |-> "idle", attempt |-> 0, blob_name |-> "", create_if_not_exists |-> TRUE,
     result |-> "none", last |-> "none", creates |-> 0]

InitMgr ==
    [pc |-> "idle",
     slp |-> 0,                        \* seconds left of time.sleep(retry_delay)
     leases |-> [f \in Files |-> NoLease], \* BlobContainerManager.__leases
     id_counter |-> 0,                 \* ChunkIndexMapping.__id_counter
     id_map |-> EmptyMap,              \* ChunkIndexMapping.__id_map
     mapping |-> EmptyDict,            \* ChunkBlobMapping.__mapping
     reverse_mapping |-> EmptyMap,     \* ChunkBlobMapping.__reverse_mapping
     keyword_index |-> NewKeywordIndex,
     vector_index |-> NewVectorIndex,
     call |-> NoCall,                  \* locals of add / remove / __init__
     doc |-> NoDoc,                    \* locals of the document processor
     up |-> NoUpload,                  \* locals of acquire_lease / with_blob_lease
     \* observation only: every value get_new_id returned, and the chunks that
     \* add returned and remove was not called for (chunk id -> text)
     issued |-> <<>>,
     live |-> EmptyMap,
     \* observation only: the positions a direct call of BM25IndexManager.remove
     \* named and no direct call of unmark_deleted has named since
     removed |-> {},
     \* observation only, of the direct calls of BM25IndexManager: the last call
     \* (what it was, whether it raised, the ids and scores it returned), the
     \* document every id returned by add was returned for, and what the ranking
     \* library was seen to do with an empty corpus
     bm25 |-> NoBM25,
     handed |-> EmptyMap,
     empty_corpus |-> "unknown",
     \* observation only, of the direct calls of VoyagerIndexManager: the last
     \* call, and the ids that a remove that returned named and no
     \* unmark_deleted that returned has named since
     voyager |-> NoVoyager,
     \* observation only, of the direct calls of BlobLeaseManager: the last
     \* call, what it raised and how many lease requests it sent to the store
     lease_call |-> NoLeaseCall,
     get_client |-> NoGetClient,
     vector_removed |-> {},
     \* observation only: the chunk ids of the calls of remove that returned
     \* to the document processor
     gone |-> {},
     downs |-> 0]                      \* teardowns in the middle of a call

---------------------------------------------------------------------------
(* Control flow of a call, as functions on the local state s *)

\* acquire_lease(container, f): enter the retry loop
ToLease(s, f) ==
    [s EXCEPT !.pc = "lease", !.up = [NoUpload EXCEPT !.f = f, !.data = s.up.data,
                                                      !.then = s.up.then]]

\* a run of the document processor is under way
DocActive(s) == s.doc.phase \notin {"none", "done"}

\* BlobManager.upload(container, f, data) under with_blob_lease
ToUpload(s, f, data, then) ==
    [s EXCEPT !.pc = "lease",
              !.up = [NoUpload EXCEPT !.f = f, !.data = data, !.then = then]]

\* BlobManager.delete(container, f) under with_blob_lease
ToDelete(s, f) ==
    [s EXCEPT !.pc = "lease", !.up = [NoUpload EXCEPT !.f = f, !.method = "delete"]]

\* BlobManager.add_metadata(container, f, metadata) under with_blob_lease
ToAddMetadata(s, f, metadata) ==
    [s EXCEPT !.pc = "lease",
              !.up = [NoUpload EXCEPT !.f = f, !.method = "add_metadata",
                                      !.data = metadata]]

\* the finally clause of add / remove
Finally(s, result) ==
    [s EXCEPT !.pc = "cleanup_idx", !.up = NoUpload, !.call.result = result]

\* the for loop over texts in add
NextText(s) ==
    IF s.call.i <= Len(s.call.texts)
    THEN [s EXCEPT !.pc = "read", !.call.step = "new_id"]
    ELSE Finally(s, "returned")

\* the loop over self.__searchers.items()
NextSearcher(s) ==
    IF s.call.j < Len(searchers)
    THEN [s EXCEPT !.pc = "searcher", !.up = NoUpload, !.call.j = @ + 1]
    ELSE [s EXCEPT !.pc = "read", !.up = NoUpload,
                   !.call.step = IF s.call.op = "add" THEN "map_idx" ELSE "unmap_idx"]

\* variant of RecordIndexId: the dict is created anew for every backend
RecordIndexIdAnew(index_ids, name, id) == [x \in {name} |-> id]

\* index_ids[index_name] = index_manager.add(text)[0]
RecordIndexId(index_ids, name, id) == MapPut(index_ids, name, id)

\* the step of the call that follows the completed one
Proceed(s) ==
    CASE s.call.step = "new_id" ->
            \* get_new_id returned new_id
            [s EXCEPT !.pc = "searcher", !.up = NoUpload,
                      !.issued = Append(@, s.call.chunk_id),
                      !.call.new_ids = @ + 1,
                      !.call.step = "index", !.call.j = 1,
                      !.call.index_ids = EmptyMap]
      [] s.call.step = "index" /\ s.call.op = "add" ->
            NextSearcher([s EXCEPT !.call.index_ids =
                              RecordIndexId(@, searchers[s.call.j], s.call.index_id)])
      [] s.call.step = "index" /\ s.call.op = "remove" ->
            NextSearcher(s)
      [] s.call.step = "map_idx" ->
            \* ChunkBlobMapping.add_mapping: mutate the memory, then save it
            LET m == DictSet(s.mapping, s.call.chunk_id,
                             [container |-> DocContainer, blob |-> s.call.source])
            IN  ToUpload([s EXCEPT !.mapping = m,
                                   !.reverse_mapping = update_reverse_mapping(m),
                                   !.call.step = "map_blob"],
                         BlobFile, BlobMappingBytes(m), "next")
      [] s.call.step = "map_blob" ->
            NextText([s EXCEPT !.up = NoUpload,
                               !.call.added_chunks = Append(@, s.call.chunk_id),
                               !.call.i = @ + 1])
      [] s.call.step = "unmap_idx" ->
            \* ChunkBlobMapping.remove_mapping
            IF s.call.chunk_id \in DictKeys(s.mapping)
            THEN LET m == DictDel(s.mapping, s.call.chunk_id)
                 IN  ToUpload([s EXCEPT !.mapping = m,
                                        !.reverse_mapping = update_reverse_mapping(m),
                                        !.call.step = "unmap_blob"],
                              BlobFile, BlobMappingBytes(m), "next")
            ELSE Finally(s, "returned")
      [] s.call.step = "unmap_blob" ->
            Finally(s, "returned")
      [] s.call.step = "doc" ->
            \* a store call of the document processor returned
            [s EXCEPT !.pc = "doc", !.up = NoUpload, !.doc.exc = FALSE]
      [] s.call.step = "saved" ->
            \* add_mapping / remove_mapping returns
            [s EXCEPT !.pc = "idle", !.up = NoUpload, !.call.result = "returned"]
      [] s.call.step = "init_idx" ->
            \* ChunkMappingManager.__init__ goes on to ChunkBlobMapping(...)
            [s EXCEPT !.pc = "read", !.up = NoUpload, !.call.step = "init_blob"]
      [] OTHER ->
            \* "init_blob": the constructor returns
            [s EXCEPT !.pc = "idle", !.up = NoUpload, !.call.result = "returned"]

\* variant of get_new_id: the counter is saved before it is incremented
get_new_id_SavedFirst(s) ==
    ToUpload([s EXCEPT !.id_counter = @ + 1,
                       !.call.chunk_id = ToString(s.id_counter)],
             IdxFile, IndexMappingBytes(s.id_counter, s.id_map), "next")

\* ChunkIndexMapping.get_new_id after the reload:
\* new_id = str(id_counter); id_counter += 1; save
get_new_id(s) ==
    ToUpload([s EXCEPT !.id_counter = @ + 1,
                       !.call.chunk_id = ToString(s.id_counter)],
             IdxFile, IndexMappingBytes(s.id_counter + 1, s.id_map), "next")

\* what a ChunkIndexMapping method does once __load_from_storage has returned
Mutate(s) ==
    CASE s.call.step = "new_id" -> get_new_id(s)
      [] s.call.step = "map_idx" ->
            \* id_map[chunk_id] = index_ids; save
            LET m == MapPut(s.id_map, s.call.chunk_id, s.call.index_ids)
            IN  ToUpload([s EXCEPT !.id_map = m],
                         IdxFile, IndexMappingBytes(s.id_counter, m), "next")
      [] s.call.step = "lookup" ->
            \* index_ids = get_index_ids(chunk_id); if index_ids: loop over searchers
            IF s.call.chunk_id \in DOMAIN s.id_map
               /\ s.id_map[s.call.chunk_id] # EmptyMap
            THEN [s EXCEPT !.pc = "searcher", !.up = NoUpload,
                           !.call.step = "index", !.call.j = 1,
                           !.call.index_ids = s.id_map[s.call.chunk_id]]
            ELSE [s EXCEPT !.pc = "read", !.up = NoUpload, !.call.step = "unmap_idx"]
      [] s.call.step = "unmap_idx" ->
            \* if chunk_id in id_map: del; save
            IF s.call.chunk_id \in DOMAIN s.id_map
            THEN LET m == MapDel(s.id_map, s.call.chunk_id)
                 IN  ToUpload([s EXCEPT !.id_map = m],
                              IdxFile, IndexMappingBytes(s.id_counter, m), "next")
            ELSE Proceed(s)
      [] OTHER -> Proceed(s)

\* the call's own acquire_lease returned (client, lease_id)
AfterLease(s, id) ==
    IF s.call.step = "lease_idx"
    THEN ToLease([s EXCEPT !.call.index_lease_id = id, !.call.step = "lease_blob"],
                 BlobFile)
    ELSE IF s.call.step = "lease_blob"
    THEN IF s.call.op = "add"
         THEN NextText([s EXCEPT !.up = NoUpload, !.call.blob_lease_id = id])
         ELSE [s EXCEPT !.pc = "read", !.up = NoUpload,
                        !.call.blob_lease_id = id, !.call.step = "lookup"]
    ELSE \* with_blob_lease: kwargs['lease_id'] = lease_id; call the method
         [s EXCEPT !.pc = "put", !.up.lease_id = id]

\* the calls that have no finally clause: the constructor, the methods of
\* ChunkBlobMapping called on their own, the store calls of the document
\* processor
NoFinally(op) == op \in {"init", "add_mapping", "remove_mapping", "doc"}

\* the exception leaves such a call: to the caller of the constructor or of the
\* method, or to the except clause of the document processor
Unwind(s) ==
    IF s.call.op = "doc"
    THEN [s EXCEPT !.pc = "doc", !.up = NoUpload, !.doc.exc = TRUE]
    ELSE [s EXCEPT !.pc = "idle", !.up = NoUpload, !.call.result = "raised"]

\* variant of Raise: a failed acquire_lease of the call is logged and the call
\* goes on without the lease
RaiseLeaseIgnored(s) ==
    IF s.call.step \in {"lease_idx", "lease_blob"}
    THEN AfterLease(s, NoLease)
    ELSE IF s.call.step = "index"
    THEN LET t == [s EXCEPT !.call.backend_errors = @ \cup {searchers[s.call.j]}]
         IN  IF s.call.op = "remove" THEN NextSearcher(t) ELSE Finally(t, "raised")
    ELSE IF NoFinally(s.call.op)
    THEN Unwind(s)
    ELSE Finally([s EXCEPT !.call.mapping_errors = @ + 1], "raised")

\* variant of Raise: remove has no try around index_manager.remove
RaiseUncaught(s) ==
    IF s.call.step = "index"
    THEN Finally([s EXCEPT !.call.backend_errors = @ \cup {searchers[s.call.j]}],
                 "raised")
    ELSE IF NoFinally(s.call.op)
    THEN Unwind(s)
    ELSE Finally([s EXCEPT !.call.mapping_errors = @ + 1], "raised")

\* variant of Raise: add catches what a searcher raises, as remove does
RaiseSwallowed(s) ==
    IF s.call.step = "index"
    THEN NextSearcher([s EXCEPT !.call.backend_errors = @ \cup {searchers[s.call.j]}])
    ELSE IF NoFinally(s.call.op)
    THEN Unwind(s)
    ELSE Finally([s EXCEPT !.call.mapping_errors = @ + 1], "raised")

\* an exception reaches the body of the call: remove catches what a searcher
\* raises (except Exception: logger.warning) and goes on; everything else
\* leaves through the finally clause, and the constructor has none
Raise(s) ==
    IF s.call.step = "index"
    THEN LET t == [s EXCEPT !.call.backend_errors = @ \cup {searchers[s.call.j]}]
         IN  IF s.call.op = "remove" THEN NextSearcher(t) ELSE Finally(t, "raised")
    ELSE IF NoFinally(s.call.op)
    THEN Unwind(s)
    ELSE Finally([s EXCEPT !.call.mapping_errors = @ + 1], "raised")

\* the wrapped method of with_blob_lease returned
AfterUpload(s) == IF s.up.then = "mutate" THEN Mutate(s) ELSE Proceed(s)

---------------------------------------------------------------------------
(* Initial state: the store after the first construction of the managers  *)
(* (both mapping files written by the constructors, no index saved yet).  *)

Init ==
    /\ blob = [f \in Files |->
                 CASE f = IdxFile -> IndexMappingBytes(0, EmptyMap)
                   [] f = BlobFile -> BlobMappingBytes(EmptyDict)
                   [] OTHER -> Absent]
    /\ lease = [f \in Files |-> Available]
    /\ mgr = [p \in Managers |-> InitMgr]
    /\ nfaults = 0
    /\ npauses = 0

---------------------------------------------------------------------------
(* Operations of ChunkMappingManager *)

\* add(blob_container, blob_name, texts): up to the first acquire_lease
StartAdd(p, texts, source) ==
    /\ mgr[p].pc = "idle"
    /\ Len(mgr[p].issued) + Len(texts) <= MaxIds
    /\ mgr' = [mgr EXCEPT ![p] =
                 ToLease([@ EXCEPT !.call = [NoCall EXCEPT !.op = "add",
                                                           !.step = "lease_idx",
                                                           !.texts = texts,
                                                           !.source = source,
                                                           !.result = "running"]],
                         IdxFile)]
    /\ UNCHANGED <<blob, lease, nfaults, npauses>>

\* remove(chunk_id): up to the first acquire_lease
StartRemove(p, chunk_id) ==
    /\ mgr[p].pc = "idle"
    /\ mgr' = [mgr EXCEPT ![p] =
                 ToLease([@ EXCEPT !.live = MapDel(@, chunk_id),
                                   !.call = [NoCall EXCEPT !.op = "remove",
                                                             !.step = "lease_idx",
                                                             !.chunk_id = chunk_id,
                                                             !.result = "running"]],
                         IdxFile)]
    /\ UNCHANGED <<blob, lease, nfaults, npauses>>

\* a teardown that releases the leases of the mapping files only
release_all_leases_MappingOnly(p) ==
    [f \in Files |-> IF f \in MappingFiles
                     THEN StoreRelease(lease[f], mgr[p].leases[f]) ELSE lease[f]]

\* BlobContainerManager.release_all_leases: every lease of the registry is
\* released at the store (a refused release is swallowed) and its entry deleted
release_all_leases(p) ==
    [f \in Files |-> StoreRelease(lease[f], mgr[p].leases[f])]

\* BlobContainerManager.__del__ while a call is under way: the instance is
\* torn down, its leases are released, its memory is gone
Teardown(p) ==
    /\ mgr[p].pc \notin {"idle", "down"}
    /\ mgr[p].downs < MaxTeardowns
    /\ lease' = release_all_leases(p)
    /\ mgr' = [mgr EXCEPT ![p] =
                 [InitMgr EXCEPT !.pc = "down",
                                 !.issued = mgr[p].issued,
                                 !.live = mgr[p].live,
                                 !.downs = mgr[p].downs + 1,
                                 !.call = [NoCall EXCEPT
                                             !.op = "del",
                                             !.result =
                                                IF \E f \in Files :
                                                      /\ IsLeased(lease[f])
                                                      /\ lease[f].id = mgr[p].leases[f]
                                                THEN "released" ELSE "returned"]]]
    /\ UNCHANGED <<blob, nfaults, npauses>>

\* The process of the manager is restarted: the old BlobContainerManager is torn
\* down (release_all_leases), the searchers reload their index blobs and
\* ChunkMappingManager.__init__ rebuilds the mapping layer from storage.
Restart(p) ==
    /\ mgr[p].pc \in {"idle", "down"}
    /\ ~VectorLoadRaises(blob[VecFile])
    /\ lease' = release_all_leases(p)
    /\ mgr' = [mgr EXCEPT ![p] =
                 [InitMgr EXCEPT !.pc = "read",
                                 !.issued = mgr[p].issued,
                                 !.live = mgr[p].live,
                                 !.downs = mgr[p].downs,
                                 !.keyword_index = LoadKeywordIndex(blob[KwFile]),
                                 !.vector_index = LoadVectorIndex(blob[VecFile]),
                                 !.call = [NoCall EXCEPT !.op = "init",
                                                         !.step = "init_idx",
                                                         !.result = "running"]]]
    /\ UNCHANGED <<blob, nfaults, npauses>>

---------------------------------------------------------------------------
(* BlobContainerManager.acquire_lease *)

\* One pass of the retry loop: get_client (which creates an absent object as an
\* empty one), read the lease state, and either go on to request the lease,
\* sleep retry_delay, or give up after max_retries passes.
Lease(p) ==
    LET s == mgr[p]
        f == s.up.f
    IN  /\ s.pc = "lease"
        /\ s.slp = 0
        /\ blob' = IF blob[f] = Absent THEN [blob EXCEPT ![f] = EmptyBytes] ELSE blob
        /\ mgr' = [mgr EXCEPT ![p] =
                     IF ~IsLeased(lease[f])
                     THEN [s EXCEPT !.pc = "grant"]
                     ELSE IF s.up.attempt < max_retries - 1
                     THEN [s EXCEPT !.up.attempt = @ + 1, !.slp = retry_delay]
                     ELSE Raise(s)]
        /\ UNCHANGED <<lease, nfaults, npauses>>

\* BlobLeaseManager.acquire_lease(client): the store grants the lease, or answers
\* with an error when the object was leased in the meantime (the AzureError is
\* logged and re-raised, and acquire_lease does not catch it).
Grant(p) ==
    LET s == mgr[p]
        f == s.up.f
        id == LeaseId(p, IF s.call.step \in {"lease_idx", "lease_blob"}
                         THEN "call" ELSE "upload")
    IN  /\ s.pc = "grant"
        /\ IF CanGrant(lease[f])
           THEN /\ lease' = [lease EXCEPT ![f] = Granted(id)]
                /\ mgr' = [mgr EXCEPT ![p] =
                             AfterLease([s EXCEPT !.leases[f] = id], id)]
           ELSE /\ lease' = lease
                /\ mgr' = [mgr EXCEPT ![p] = Raise(s)]
        /\ UNCHANGED <<blob, nfaults, npauses>>

\* variant of Released: the registry entry stays after the release
ReleasedKept(registry, f) == registry

\* BlobContainerManager.release_lease seen from the manager: the registry entry
\* is deleted whenever there is one
Released(registry, f) == [registry EXCEPT ![f] = NoLease]

---------------------------------------------------------------------------
(* BlobManager.upload under with_blob_lease *)

\* the wrapped method of with_blob_lease: upload_blob(data, overwrite=True,
\* lease=lease_id), delete_blob(lease=lease_id) (the lease goes with the
\* object) or set_blob_metadata(existing + metadata, lease=lease_id)
Put(p) ==
    LET s == mgr[p]
        f == s.up.f
    IN  /\ s.pc = "put"
        /\ IF WriteAccepted(lease[f], s.up.lease_id)
           THEN /\ blob' = [blob EXCEPT ![f] =
                               CASE s.up.method = "delete" -> Absent
                                 [] s.up.method = "add_metadata" -> SetMetadata(@, s.up.data)
                                 [] OTHER -> s.up.data]
                /\ lease' = IF s.up.method = "delete"
                            THEN [lease EXCEPT ![f] = Available] ELSE lease
                /\ mgr' = [mgr EXCEPT ![p] =
                             [s EXCEPT !.pc = "release",
                                       !.call.writes =
                                           IF f \in MappingFiles THEN @ + 1 ELSE @]]
           ELSE /\ blob' = blob
                /\ lease' = lease
                /\ mgr' = [mgr EXCEPT ![p] =
                             [s EXCEPT !.pc = "release", !.up.raising = TRUE]]
        /\ UNCHANGED <<nfaults, npauses>>

\* finally: if lease_id: release_lease(container, f); then the method's result
\* or its exception reaches the caller
Release(p) ==
    LET s == mgr[p]
        f == s.up.f
        t == [s EXCEPT !.leases = Released(@, f)]
    IN  /\ s.pc = "release"
        /\ lease' = [lease EXCEPT ![f] = StoreRelease(@, s.leases[f])]
        /\ mgr' = [mgr EXCEPT ![p] = IF s.up.raising THEN Raise(t) ELSE AfterUpload(t)]
        /\ UNCHANGED <<blob, nfaults, npauses>>

---------------------------------------------------------------------------
(* The mapping layer: __load_from_storage *)

\* ChunkIndexMapping.__load_from_storage: a decodable document is taken over;
\* an absent, empty or undecodable one resets the memory and saves the reset
LoadIndexMapping(s, b) ==
    IF IsIndexMapping(b)
    THEN Mutate([s EXCEPT !.id_counter = JsonLoads(b).id_counter,
                          !.id_map = JsonLoads(b).id_map])
    ELSE ToUpload([s EXCEPT !.id_counter = 0, !.id_map = EmptyMap],
                  IdxFile, IndexMappingBytes(0, EmptyMap), "mutate")

\* ChunkBlobMapping.__load_from_storage (only __init__ calls it): an empty
\* object resets the memory, an absent or undecodable one also saves the reset
LoadBlobMapping(s, b) ==
    IF IsJson(b)
    THEN Proceed([s EXCEPT !.mapping = JsonLoads(b),
                           !.reverse_mapping = update_reverse_mapping(JsonLoads(b))])
    ELSE IF b = EmptyBytes
    THEN Proceed([s EXCEPT !.mapping = EmptyDict, !.reverse_mapping = EmptyMap])
    ELSE ToUpload([s EXCEPT !.mapping = EmptyDict, !.reverse_mapping = EmptyMap],
                  BlobFile, BlobMappingBytes(EmptyDict), "next")

\* blob_manager.read(container, blob) of a mapping file: no lease is taken
Read(p) ==
    LET s == mgr[p]
    IN  /\ s.pc = "read"
        /\ mgr' = [mgr EXCEPT ![p] =
                     IF s.call.step = "init_blob"
                     THEN LoadBlobMapping(s, blob[BlobFile])
                     ELSE LoadIndexMapping(s, blob[IdxFile])]
        /\ UNCHANGED <<blob, lease, nfaults, npauses>>

---------------------------------------------------------------------------
(* The searchers: KeywordSearch / VectorSearch add and remove *)

\* KeywordSearch.add(text): keyword_index.add, then __save (an upload)
KeywordSearchAdd(s, text, fail) ==
    LET ki == KeywordAdd(s.keyword_index, text)
        t == [s EXCEPT !.keyword_index = ki,
                       !.call.index_id = KeywordNewId(s.keyword_index)]
    IN  IF fail THEN Raise(t) ELSE ToUpload(t, KwFile, export(ki), "next")

\* VectorSearch.add(text): embed_single (the embedding service may fail), then
\* vector_index.add, then __save
VectorSearchAdd(s, text, fail) ==
    LET vi == VectorAdd(s.vector_index, text)
        t == [s EXCEPT !.vector_index = vi,
                       !.call.index_id = VectorNewId(s.vector_index)]
    IN  IF fail THEN Raise(s) ELSE ToUpload(t, VecFile, PickleDumps(vi), "next")

\* KeywordSearch.remove(id)
KeywordSearchRemove(s, id, fail, raises) ==
    LET ki == KeywordRemove(s.keyword_index, id, raises)
        t == [s EXCEPT !.keyword_index = ki]
    IN  IF ~s.keyword_index.index THEN Raise(s)
        ELSE IF fail \/ KeywordRemoveRaises(s.keyword_index, id, raises) THEN Raise(t)
        ELSE ToUpload(t, KwFile, export(ki), "next")

\* VectorSearch.remove(id)
VectorSearchRemove(s, id, fail) ==
    LET vi == VectorRemove(s.vector_index, id)
        t == [s EXCEPT !.vector_index = vi]
    IN  IF fail \/ VectorRemoveRaises(s.vector_index, id) THEN Raise(s)
        ELSE ToUpload(t, VecFile, PickleDumps(vi), "next")

\* One pass of the loop over the searchers, in add (index_manager.add(text)[0])
\* or in remove (index_manager.remove(index_ids[index_name]) when the name is in
\* index_ids).  fail: the call fails for a reason outside the store (the
\* embedding service, the index library, the connection).  raises: what the
\* ranking library does with an empty corpus.
Searcher(p) ==
    LET s == mgr[p]
        name == searchers[s.call.j]
        c == [s EXCEPT !.call.backend_calls = @ \cup {name}]
    IN  /\ s.pc = "searcher"
        /\ \E fail, raises \in BOOLEAN :
             /\ fail => nfaults < MaxFaults
             /\ fail => (s.call.op = "add" \/ name \in DOMAIN s.call.index_ids)
             /\ nfaults' = IF fail THEN nfaults + 1 ELSE nfaults
             /\ mgr' = [mgr EXCEPT ![p] =
                  IF s.call.op = "add"
                  THEN IF name = "keyword"
                       THEN KeywordSearchAdd(c, s.call.texts[s.call.i], fail)
                       ELSE VectorSearchAdd(c, s.call.texts[s.call.i], fail)
                  ELSE IF name \notin DOMAIN s.call.index_ids
                       THEN NextSearcher(s)
                  ELSE IF name = "keyword"
                       THEN KeywordSearchRemove(c, s.call.index_ids[name], fail, raises)
                       ELSE VectorSearchRemove(c, s.call.index_ids[name], fail)]
        /\ UNCHANGED <<blob, lease, npauses>>

---------------------------------------------------------------------------
(* The finally clause of add / remove *)

\* the call is over: its loop variables are gone, what it returned or raised
\* and what it did stay visible
Returned(c) ==
    [c EXCEPT !.step = "none", !.j = 1, !.index_ids = EmptyMap, !.index_id = 0]

\* the chunks an add that returned has handed to its caller
Added(c) ==
    IF c.op = "add" /\ c.result = "returned"
    THEN [k \in {c.added_chunks[n] : n \in 1..Len(c.added_chunks)} |->
            c.texts[CHOOSE n \in 1..Len(c.added_chunks) : c.added_chunks[n] = k]]
    ELSE EmptyMap

\* if index_lease_id: release_lease(db_container, chunk_index_mapping_file)
\* if blob_lease_id:  release_lease(db_container, chunk_blob_mapping_file)
Cleanup(p) ==
    LET s == mgr[p]
        f == IF s.pc = "cleanup_idx" THEN IdxFile ELSE BlobFile
        taken == IF s.pc = "cleanup_idx"
                 THEN s.call.index_lease_id # NoLease
                 ELSE s.call.blob_lease_id # NoLease
        pc2 == IF s.pc = "cleanup_idx" THEN "cleanup_blob"
               ELSE IF DocActive(s) THEN "doc" ELSE "idle"
    IN  /\ s.pc \in {"cleanup_idx", "cleanup_blob"}
        /\ lease' = IF taken
                    THEN [lease EXCEPT ![f] = StoreRelease(@, s.leases[f])]
                    ELSE lease
        /\ mgr' = [mgr EXCEPT ![p] =
                     [s EXCEPT !.pc = pc2,
                               !.leases = IF taken THEN Released(@, f) ELSE @,
                               !.live = IF pc2 # "cleanup_blob"
                                        THEN [k \in DOMAIN @ \cup DOMAIN Added(s.call) |->
                                                IF k \in DOMAIN Added(s.call)
                                                THEN Added(s.call)[k] ELSE @[k]]
                                        ELSE @,
                               !.call = IF pc2 # "cleanup_blob" THEN Returned(@) ELSE @]]
        /\ UNCHANGED <<blob, nfaults, npauses>>

---------------------------------------------------------------------------
(* Time *)

\* retry_delay seconds pass while a manager is in time.sleep(retry_delay):
\* every lease and every sleep gets that much older
Tick ==
    /\ \E p \in Managers : mgr[p].slp > 0
    /\ lease' = [f \in Files |-> [lease[f] EXCEPT !.ttl = Max(0, @ - retry_delay)]]
    /\ mgr' = [p \in Managers |-> [mgr[p] EXCEPT !.slp = Max(0, @ - retry_delay)]]
    /\ UNCHANGED <<blob, nfaults, npauses>>

\* Between two statements a process is held up for lease_duration seconds or
\* more (a slow service, a suspended host): every lease granted before runs out
Pause ==
    /\ npauses < MaxPauses
    /\ \E f \in Files : lease[f].ttl > 0
    /\ npauses' = npauses + 1
    /\ lease' = [f \in Files |-> [lease[f] EXCEPT !.ttl = Max(0, @ - lease_duration)]]
    /\ mgr' = [p \in Managers |-> [mgr[p] EXCEPT !.slp = Max(0, @ - lease_duration)]]
    /\ UNCHANGED <<blob, nfaults>>

---------------------------------------------------------------------------
(* Specifications *)

\* chunk ids a caller passes to remove: the ids issued to it so far, and the
\* next number, which no chunk carries
RemoveArgs(p) == {ToString(n) : n \in 0..Len(mgr[p].issued)}

Step(p) ==
    \/ \E texts \in TextLists, source \in Sources : StartAdd(p, texts, source)
    \/ \E chunk_id \in RemoveArgs(p) : StartRemove(p, chunk_id)
    \/ Restart(p)
    \/ Lease(p)
    \/ Grant(p)
    \/ Put(p)
    \/ Release(p)
    \/ Read(p)
    \/ Searcher(p)
    \/ Cleanup(p)

\* one manager instance, one mutation at a time (the scheduling model of the
\* enclosing system)
Next == Step(1) \/ Tick \/ Pause

Spec == Init /\ [][Next]_vars

\* the store after the first construction, when no external service fails
InitConc ==
    /\ blob = [f \in Files |->
                 CASE f = IdxFile -> IndexMappingBytes(0, EmptyMap)
                   [] f = BlobFile -> BlobMappingBytes(EmptyDict)
                   [] OTHER -> Absent]
    /\ lease = [f \in Files |-> Available]
    /\ mgr = [p \in Managers |-> InitMgr]
    /\ nfaults = MaxFaults
    /\ npauses = 0

\* Another client of the store (another instance of the application) takes the
\* lease of a mapping file with BlobLeaseManager.acquire_lease, or releases it
OtherId == [by |-> 0, at |-> "other"]

OtherAcquire(f) ==
    /\ CanGrant(lease[f])
    /\ lease' = [lease EXCEPT ![f] = Granted(OtherId)]
    /\ UNCHANGED <<blob, mgr, nfaults, npauses>>

OtherRelease(f) ==
    /\ lease[f].id = OtherId
    /\ lease' = [lease EXCEPT ![f] = StoreRelease(@, OtherId)]
    /\ UNCHANGED <<blob, mgr, nfaults, npauses>>

\* one manager instance among other clients that lease the mapping files: it
\* adds its first chunks and removes them, with no other failure than the leases
StepContended(p) ==
    \/ \E texts \in TextLists, source \in Sources :
          mgr[p].issued = <<>> /\ StartAdd(p, texts, source)
    \/ \E chunk_id \in RemoveArgs(p) :
          chunk_id \in DOMAIN mgr[p].live /\ StartRemove(p, chunk_id)
    \/ Lease(p)
    \/ Grant(p)
    \/ Put(p)
    \/ Release(p)
    \/ Read(p)
    \/ Searcher(p)
    \/ Cleanup(p)

NextContended ==
    \/ StepContended(1)
    \/ Tick
    \/ Pause
    \/ \E f \in MappingFiles : OtherAcquire(f)
    \/ \E f \in MappingFiles : OtherRelease(f)

SpecContended == InitConc /\ [][NextContended]_vars

\* One manager whose instance can be torn down in the middle of a call and
\* constructed again, without injected backend failures
NextTeardown == StepContended(1) \/ Teardown(1) \/ Restart(1) \/ Tick \/ Pause

SpecTeardown == InitConc /\ [][NextTeardown]_vars

---------------------------------------------------------------------------
(* The keyword index of one instance, called directly *)

Texts == {Text(i) : i \in 1..MaxTexts}

\* the documents of one call of add: one or several
Documents == {[i \in 1..n |-> f[i]] : n \in 1..MaxTexts, f \in [1..MaxTexts -> Texts]}
\* the values of k1 and b a manager is constructed with
K1s == {K1, "1.2"}
Bs == {B}

\* the ranking library does the same with every empty corpus: raises is what it
\* does this time, given what it was seen to do before
LibAllows(p, raises) ==
    \/ mgr[p].empty_corpus = "unknown"
    \/ mgr[p].empty_corpus = (IF raises THEN "raises" ELSE "tolerates")
\* ki is the manager as __update_index finds it
LibSeen(p, ki, raises) ==
    IF ActiveIndices(ki) = <<>>
    THEN (IF raises THEN "raises" ELSE "tolerates")
    ELSE mgr[p].empty_corpus

\* BM25IndexManager.add(documents)
BM25Add(p, documents) ==
    LET ki == mgr[p].keyword_index
        new_ids == AddIds(ki, documents)
    IN  /\ mgr[p].pc = "idle"
        /\ Len(ki.docs) + Len(documents) <= MaxDocs
        /\ mgr' = [mgr EXCEPT
                     ![p].keyword_index = KeywordAddAll(ki, documents),
                     ![p].bm25 = [NoBM25 EXCEPT !.op = "add", !.ids = new_ids],
                     ![p].handed =
                        [id \in DOMAIN @ \cup {new_ids[n] : n \in 1..Len(new_ids)} |->
                           IF \E n \in 1..Len(new_ids) : new_ids[n] = id
                           THEN documents[CHOOSE n \in 1..Len(new_ids) : new_ids[n] = id]
                           ELSE @[id]]]
        /\ UNCHANGED <<blob, lease, nfaults, npauses>>

\* BM25IndexManager.remove(id)
BM25Remove(p, id, raises) ==
    LET ki == mgr[p].keyword_index
        flagged == [ki EXCEPT !.deleted_flags =
                       IF 0 <= id /\ id < Len(ki.docs) THEN @ \cup {id} ELSE @]
    IN  /\ mgr[p].pc = "idle"
        /\ LibAllows(p, raises)
        /\ mgr' = IF ~ki.index
                  THEN [mgr EXCEPT ![p].bm25 =
                          [NoBM25 EXCEPT !.op = "remove", !.ids = <<id>>,
                                         !.raised = KeywordRemoveRaises(ki, id, raises)]]
                  ELSE [mgr EXCEPT
                          ![p].keyword_index = KeywordRemove(ki, id, raises),
                          ![p].removed = IF 0 <= id /\ id < Len(ki.docs)
                                         THEN @ \cup {id} ELSE @,
                          ![p].empty_corpus = LibSeen(p, flagged, raises),
                          ![p].bm25 = [NoBM25 EXCEPT
                                         !.op = "remove", !.ids = <<id>>,
                                         !.raised = KeywordRemoveRaises(ki, id, raises)]]
        /\ UNCHANGED <<blob, lease, nfaults, npauses>>

\* BM25IndexManager.unmark_deleted(id)
BM25Unmark(p, id, raises) ==
    LET ki == mgr[p].keyword_index
        unflagged == [ki EXCEPT !.deleted_flags = @ \ {id}]
    IN  /\ mgr[p].pc = "idle"
        /\ LibAllows(p, raises)
        /\ mgr' = IF ~ki.index
                  THEN [mgr EXCEPT ![p].bm25 =
                          [NoBM25 EXCEPT !.op = "unmark_deleted", !.ids = <<id>>,
                                         !.raised = UnmarkRaises(ki, id, raises)]]
                  ELSE [mgr EXCEPT
                          ![p].keyword_index = unmark_deleted(ki, id, raises),
                          ![p].removed = @ \ {id},
                          ![p].empty_corpus = LibSeen(p, unflagged, raises),
                          ![p].bm25 = [NoBM25 EXCEPT
                                         !.op = "unmark_deleted", !.ids = <<id>>,
                                         !.raised = UnmarkRaises(ki, id, raises)]]
        /\ UNCHANGED <<blob, lease, nfaults, npauses>>

\* BM25IndexManager.search(query, k)
BM25SearchCall(p, query, k) ==
    LET ki == mgr[p].keyword_index
    IN  /\ mgr[p].pc = "idle"
        /\ mgr' = [mgr EXCEPT
                     ![p].bm25 = [NoBM25 EXCEPT !.op = "search",
                                                !.ids = BM25Search(ki, query, k),
                                                !.scores = BM25Scores(ki, query, k)]]
        /\ UNCHANGED <<blob, lease, nfaults, npauses>>

\* BM25IndexManager.load_from_byte(manager.export()): the manager is replaced by
\* the one that was loaded, unless export or load_from_byte raises
BM25Reload(p, raises) ==
    LET ki == mgr[p].keyword_index
        raised == ExportRaises(ki) \/ LoadFromByteRaises(export(ki), raises)
    IN  /\ mgr[p].pc = "idle"
        /\ LibAllows(p, raises)
        /\ mgr' = [mgr EXCEPT
                     ![p].keyword_index =
                        IF raised THEN ki ELSE load_from_byte(export(ki), raises),
                     ![p].empty_corpus = IF ExportRaises(ki) THEN @
                                         ELSE LibSeen(p, ki, raises),
                     ![p].bm25 = [NoBM25 EXCEPT !.op = "reload", !.raised = raised]]
        /\ UNCHANGED <<blob, lease, nfaults, npauses>>

NextBM25 ==
    \/ \E documents \in Documents : BM25Add(1, documents)
    \/ \E id \in 0..(MaxDocs - 1), raises \in BOOLEAN : BM25Remove(1, id, raises)
    \/ \E id \in 0..(MaxDocs - 1), raises \in BOOLEAN : BM25Unmark(1, id, raises)
    \/ \E query \in Texts, k \in 1..MaxDocs : BM25SearchCall(1, query, k)
    \/ \E raises \in BOOLEAN : BM25Reload(1, raises)

\* a manager constructed with some k1 and b
InitBM25 ==
    /\ blob = [f \in Files |->
                 CASE f = IdxFile -> IndexMappingBytes(0, EmptyMap)
                   [] f = BlobFile -> BlobMappingBytes(EmptyDict)
                   [] OTHER -> Absent]
    /\ lease = [f \in Files |-> Available]
    /\ \E k1 \in K1s, b \in Bs :
          mgr = [p \in Managers |->
                   [InitMgr EXCEPT !.keyword_index.k1 = k1, !.keyword_index.b = b]]
    /\ nfaults = 0
    /\ npauses = 0

SpecBM25 == InitBM25 /\ [][NextBM25]_vars

---------------------------------------------------------------------------
(* BlobContainerManager.get_client, with the container of the objects a     *)
(* part of the store: it is there, it is not, or it is being deleted        *)

DbContainer == "db"
ContainerIs(state) == [kind |-> "container", state |-> state]

\* get_client returns or raises
GetClientDone(g, result) == [g EXCEPT !.pc = "done", !.result = result]

\* the statements after the container was found or created
GetClientBlob(g) ==
    IF g.blob_name # "" THEN [g EXCEPT !.pc = "blob"] ELSE GetClientDone(g, "client")

\* except AzureError after create_container: "ContainerBeingDeleted" is waited
\* for while attempts are left, anything else is raised
CreateFailed_Fatal(g, being_deleted) ==
    IF being_deleted
    THEN GetClientDone(g, "ResourceNotFoundError")
    ELSE GetClientDone(g, "AzureError")
CreateFailed(g, being_deleted) ==
    IF being_deleted
    THEN IF g.attempt < max_retries - 1
         THEN [g EXCEPT !.pc = "sleep"]
         ELSE GetClientDone(g, "ResourceNotFoundError")
    ELSE GetClientDone(g, "AzureError")

\* get_client(container_name, blob_name, create_if_not_exists=create)
GetClientStart(p, blob_name, create) ==
    /\ mgr[p].get_client.pc \in {"idle", "done"}
    /\ mgr' = [mgr EXCEPT ![p].get_client =
                 [NoGetClient EXCEPT !.pc = "check", !.blob_name = blob_name,
                                     !.create_if_not_exists = create]]
    /\ UNCHANGED <<blob, lease, nfaults, npauses>>

\* container_client.get_container_properties(): ResourceNotFoundError unless the
\* container is there
GetClientCheck(p) ==
    LET g == mgr[p].get_client
    IN  /\ g.pc = "check"
        /\ mgr' = [mgr EXCEPT ![p].get_client =
                     IF blob[DbContainer].state = "present" THEN GetClientBlob(g)
                     ELSE IF g.create_if_not_exists THEN [g EXCEPT !.pc = "create"]
                     ELSE GetClientDone(g, "ResourceNotFoundError")]
        /\ UNCHANGED <<blob, lease, nfaults, npauses>>

\* service_client.create_container(container_name): the store creates an absent
\* container, refuses one that is being deleted with ContainerBeingDeleted and
\* one that another actor has created meanwhile with another error; fault: the
\* request fails for another reason
GetClientCreate(p, fault) ==
    LET g == [mgr[p].get_client EXCEPT !.creates = @ + 1]
        state == blob[DbContainer].state
    IN  /\ g.pc = "create"
        /\ fault => nfaults < MaxFaults
        /\ nfaults' = IF fault THEN nfaults + 1 ELSE nfaults
        /\ IF ~fault /\ state = "absent"
           THEN /\ blob' = [blob EXCEPT ![DbContainer] = ContainerIs("present")]
                /\ mgr' = [mgr EXCEPT ![p].get_client =
                             GetClientBlob([g EXCEPT !.last = "created"])]
           ELSE /\ blob' = blob
                /\ mgr' = [mgr EXCEPT
                             ![p].slp = IF ~fault /\ state = "being_deleted"
                                           /\ g.attempt < max_retries - 1
                                        THEN retry_delay ELSE @,
                             ![p].get_client =
                                IF ~fault /\ state = "being_deleted"
                                THEN CreateFailed([g EXCEPT !.last = "being_deleted"], TRUE)
                                ELSE CreateFailed([g EXCEPT !.last = "other"], FALSE)]
        /\ UNCHANGED <<lease, npauses>>

\* time.sleep(retry_delay) is over: continue with the next attempt
GetClientWake(p) ==
    LET g == mgr[p].get_client
    IN  /\ g.pc = "sleep"
        /\ mgr[p].slp = 0
        /\ mgr' = [mgr EXCEPT ![p].get_client = [g EXCEPT !.pc = "check",
                                                          !.attempt = @ + 1]]
        /\ UNCHANGED <<blob, lease, nfaults, npauses>>

\* blob_client.get_blob_properties(), and upload_blob(data="") for an object
\* that is not there; both raise ResourceNotFoundError when the container has
\* gone meanwhile
GetClientObject(p) ==
    LET g == mgr[p].get_client
        f == g.blob_name
    IN  /\ g.pc = "blob"
        /\ IF blob[DbContainer].state # "present"
           THEN /\ blob' = blob
                /\ mgr' = [mgr EXCEPT ![p].get_client =
                             GetClientDone(g, "ResourceNotFoundError")]
           ELSE IF blob[f] # Absent
           THEN /\ blob' = blob
                /\ mgr' = [mgr EXCEPT ![p].get_client = GetClientDone(g, "client")]
           ELSE IF g.create_if_not_exists
           THEN /\ blob' = [blob EXCEPT ![f] = EmptyBytes]
                /\ mgr' = [mgr EXCEPT ![p].get_client = GetClientDone(g, "client")]
           ELSE /\ blob' = blob
                /\ mgr' = [mgr EXCEPT ![p].get_client =
                             GetClientDone(g, "ResourceNotFoundError")]
        /\ UNCHANGED <<lease, nfaults, npauses>>

\* another actor deletes the container; the store removes it with its objects
\* some time later; another actor creates it
ContainerDelete ==
    /\ blob[DbContainer].state = "present"
    /\ blob' = [blob EXCEPT ![DbContainer] = ContainerIs("being_deleted")]
    /\ UNCHANGED <<lease, mgr, nfaults, npauses>>
ContainerPurged ==
    /\ blob[DbContainer].state = "being_deleted"
    /\ blob' = [f \in DOMAIN blob |->
                  IF f = DbContainer THEN ContainerIs("absent") ELSE Absent]
    /\ UNCHANGED <<lease, mgr, nfaults, npauses>>
ContainerCreate ==
    /\ blob[DbContainer].state = "absent"
    /\ blob' = [blob EXCEPT ![DbContainer] = ContainerIs("present")]
    /\ UNCHANGED <<lease, mgr, nfaults, npauses>>

InitContainer ==
    /\ \E state \in {"present", "absent", "being_deleted"} :
          blob = [f \in Files \cup {DbContainer} |->
                    IF f = DbContainer THEN ContainerIs(state)
                    ELSE IF state = "present" /\ f = IdxFile
                    THEN IndexMappingBytes(0, EmptyMap)
                    ELSE Absent]
    /\ lease = [f \in Files |-> Available]
    /\ mgr = [p \in Managers |-> InitMgr]
    /\ nfaults = 0
    /\ npauses = 0

NextContainer ==
    \/ \E blob_name \in {"", IdxFile, BlobFile}, create \in BOOLEAN :
          GetClientStart(1, blob_name, create)
    \/ GetClientCheck(1)
    \/ \E fault \in BOOLEAN : GetClientCreate(1, fault)
    \/ GetClientWake(1)
    \/ GetClientObject(1)
    \/ ContainerDelete
    \/ ContainerPurged
    \/ ContainerCreate
    \/ Tick

SpecContainer == InitContainer /\ [][NextContainer]_vars

---------------------------------------------------------------------------
(* BlobLeaseManager, called directly *)

\* if lease_duration != -1 and not (15 <= lease_duration <= 60): raise ValueError
ValidDuration_NoSentinel(d) == 15 <= d /\ d <= 60
ValidDuration(d) == d = -1 \/ (15 <= d /\ d <= 60)

\* the lease the store grants for lease_duration seconds; one asked for with -1
\* does not run out (its ttl is above every finite one)
GrantedFor(id, d) == [id |-> id, ttl |-> IF d = -1 THEN 60 + 1 ELSE d]

\* the durations a caller passes
Durations == {-1, 14, 15, lease_duration, 60, 61}

\* BlobLeaseManager.acquire_lease(client of f, d): the validation, then one
\* client.acquire_lease, whose error is logged and raised again
LeaseAcquire(p, f, d) ==
    LET valid == ValidDuration(d)
        granted == valid /\ CanGrant(lease[f])
    IN  /\ mgr[p].pc = "idle"
        /\ lease' = IF granted
                    THEN [lease EXCEPT ![f] = GrantedFor(LeaseId(p, "acquire"), d)]
                    ELSE lease
        /\ mgr' = [mgr EXCEPT
                     ![p].leases[f] = IF granted THEN LeaseId(p, "acquire") ELSE @,
                     ![p].lease_call =
                        [op |-> "acquire", duration |-> d,
                         raised |-> IF ~valid THEN "ValueError"
                                    ELSE IF ~granted THEN "AzureError" ELSE "none",
                         requests |-> IF valid THEN 1 ELSE 0]]
        /\ UNCHANGED <<blob, nfaults, npauses>>

\* BlobLeaseManager.release(lease_client) of the lease the caller was granted on
\* f: the mismatch error of the store is logged, not raised
LeaseRelease(p, f) ==
    /\ mgr[p].pc = "idle"
    /\ mgr[p].leases[f] # NoLease
    /\ lease' = [lease EXCEPT ![f] = StoreRelease(@, mgr[p].leases[f])]
    /\ mgr' = [mgr EXCEPT ![p].leases[f] = NoLease,
                          ![p].lease_call = [NoLeaseCall EXCEPT !.op = "release"]]
    /\ UNCHANGED <<blob, nfaults, npauses>>

\* time passes: every lease of a finite duration runs out
LeaseElapse ==
    /\ \E f \in Files : lease[f].ttl \in 1..60
    /\ lease' = [f \in Files |->
                   IF lease[f].ttl \in 1..60 THEN [lease[f] EXCEPT !.ttl = 0] ELSE lease[f]]
    /\ UNCHANGED <<blob, mgr, nfaults, npauses>>

NextLease ==
    \/ \E p \in Managers, f \in MappingFiles, d \in Durations : LeaseAcquire(p, f, d)
    \/ \E p \in Managers, f \in MappingFiles : LeaseRelease(p, f)
    \/ LeaseElapse

SpecLease == Init /\ [][NextLease]_vars

---------------------------------------------------------------------------
(* The vector index of one instance, called directly *)

\* VoyagerIndexManager.add of the vector of one text
VoyagerAdd(p, text) ==
    LET vi == mgr[p].vector_index
    IN  /\ mgr[p].pc = "idle"
        /\ Len(vi.items) < MaxDocs
        /\ mgr' = [mgr EXCEPT
                     ![p].vector_index = VectorAdd(vi, text),
                     ![p].voyager = [NoVoyager EXCEPT !.op = "add",
                                                      !.id = VectorNewId(vi),
                                                      !.ids = <<VectorNewId(vi)>>]]
        /\ UNCHANGED <<blob, lease, nfaults, npauses>>

\* VoyagerIndexManager.remove(id)
VoyagerRemove(p, id) ==
    LET vi == mgr[p].vector_index
        raised == VectorRemoveRaises(vi, id)
    IN  /\ mgr[p].pc = "idle"
        /\ mgr' = [mgr EXCEPT
                     ![p].vector_index = IF raised THEN vi ELSE VectorRemove(vi, id),
                     ![p].vector_removed = IF raised THEN @ ELSE @ \cup {id},
                     ![p].voyager = [NoVoyager EXCEPT !.op = "remove", !.id = id,
                                                      !.raised = raised]]
        /\ UNCHANGED <<blob, lease, nfaults, npauses>>

\* VoyagerIndexManager.unmark_deleted(id)
VoyagerUnmark(p, id) ==
    LET vi == mgr[p].vector_index
        raised == VectorUnmarkRaises(vi, id)
    IN  /\ mgr[p].pc = "idle"
        /\ mgr' = [mgr EXCEPT
                     ![p].vector_index = IF raised THEN vi ELSE VectorUnmark(vi, id),
                     ![p].vector_removed = IF raised THEN @ ELSE @ \ {id},
                     ![p].voyager = [NoVoyager EXCEPT !.op = "unmark_deleted", !.id = id,
                                                      !.raised = raised]]
        /\ UNCHANGED <<blob, lease, nfaults, npauses>>

\* VoyagerIndexManager.search(query_vector, k)
VoyagerSearchCall(p, query, k, strict) ==
    LET vi == mgr[p].vector_index
        raised == VectorSearchRaises(vi, k, strict)
    IN  /\ mgr[p].pc = "idle"
        /\ mgr' = [mgr EXCEPT
                     ![p].voyager = [NoVoyager EXCEPT
                                       !.op = "search", !.raised = raised,
                                       !.ids = IF raised THEN <<>>
                                               ELSE VectorSearchIds(vi, query, k)]]
        /\ UNCHANGED <<blob, lease, nfaults, npauses>>

NextVoyager ==
    \/ \E text \in Texts : VoyagerAdd(1, text)
    \/ \E id \in 0..(MaxDocs - 1) : VoyagerRemove(1, id)
    \/ \E id \in 0..(MaxDocs - 1) : VoyagerUnmark(1, id)
    \/ \E query \in Texts, k \in 1..MaxDocs, strict \in BOOLEAN :
          VoyagerSearchCall(1, query, k, strict)

SpecVoyager == Init /\ [][NextVoyager]_vars

---------------------------------------------------------------------------
(* The source map of one instance, called directly *)

ChunkIds == {ToString(n) : n \in 0..(MaxIds - 1)}
Containers == {"docs", "b"}
BlobNames == {"a.pdf", "b:a.pdf"}

\* ChunkBlobMapping.add_mapping(chunk_id, blob_container, blob_name)
add_mapping(p, chunk_id, blob_container, blob_name) ==
    LET s == mgr[p]
        m == DictSet(s.mapping, chunk_id, [container |-> blob_container, blob |-> blob_name])
    IN  /\ s.pc = "idle"
        /\ mgr' = [mgr EXCEPT ![p] =
                     ToUpload([s EXCEPT !.mapping = m,
                                        !.reverse_mapping = update_reverse_mapping(m),
                                        !.call = [NoCall EXCEPT !.op = "add_mapping",
                                                                !.step = "saved",
                                                                !.chunk_id = chunk_id,
                                                                !.result = "running"]],
                              BlobFile, BlobMappingBytes(m), "next")]
        /\ UNCHANGED <<blob, lease, nfaults, npauses>>

\* ChunkBlobMapping.remove_mapping(chunk_id)
remove_mapping(p, chunk_id) ==
    LET s == mgr[p]
        m == DictDel(s.mapping, chunk_id)
    IN  /\ s.pc = "idle"
        /\ chunk_id \in DictKeys(s.mapping)
        /\ mgr' = [mgr EXCEPT ![p] =
                     ToUpload([s EXCEPT !.mapping = m,
                                        !.reverse_mapping = update_reverse_mapping(m),
                                        !.call = [NoCall EXCEPT !.op = "remove_mapping",
                                                                !.step = "saved",
                                                                !.chunk_id = chunk_id,
                                                                !.result = "running"]],
                              BlobFile, BlobMappingBytes(m), "next")]
        /\ UNCHANGED <<blob, lease, nfaults, npauses>>

NextSourceMap ==
    \/ \E chunk_id \in ChunkIds, c \in Containers, b \in BlobNames : add_mapping(1, chunk_id, c, b)
    \/ \E chunk_id \in ChunkIds : remove_mapping(1, chunk_id)
    \/ Restart(1)
    \/ Lease(1)
    \/ Grant(1)
    \/ Put(1)
    \/ Release(1)
    \/ Read(1)
    \/ Pause

SpecSourceMap == Init /\ [][NextSourceMap]_vars

---------------------------------------------------------------------------
(* The document processor: index_queued_blobs -> process_and_save_document, *)
(* check_deleted_blobs -> delete_document.  One step is one store call or   *)
(* one call of the mapping manager, together with the statements up to the  *)
(* next one.                                                                *)

\* json.dumps({'text': .., 'document_name': .., 'page_number': ..})
ChunkData(text) == JsonDumps([text |-> text, document_name |-> DocName, page_number |-> 1])
TextData(texts) == [kind |-> "text", value |-> texts]

\* mapping_manager.add(container_name, blob_name, texts): up to the first
\* acquire_lease
BeginAdd(s, texts) ==
    ToLease([s EXCEPT !.call = [NoCall EXCEPT !.op = "add",
                                              !.step = "lease_idx",
                                              !.texts = texts,
                                              !.source = DocName,
                                              !.result = "running"]],
            IdxFile)

\* mapping_manager.remove(chunk_id): up to the first acquire_lease
BeginRemove(s, chunk_id) ==
    ToLease([s EXCEPT !.live = MapDel(@, chunk_id),
                      !.call = [NoCall EXCEPT !.op = "remove",
                                              !.step = "lease_idx",
                                              !.chunk_id = chunk_id,
                                              !.result = "running"]],
            IdxFile)

\* a store call made by the document processor itself
DocCall(s, phase) ==
    [s EXCEPT !.doc.phase = phase,
              !.call = [NoCall EXCEPT !.op = "doc", !.step = "doc", !.result = "running"]]

\* the handler returns (it logs what process_and_save_document or
\* delete_document raised)
Finish(s, result) ==
    [s EXCEPT !.pc = "idle", !.up = NoUpload,
              !.doc = [NoDoc EXCEPT !.op = s.doc.op, !.phase = "done", !.result = result,
                                    !.earlier = s.doc.earlier,
                                    !.created = s.doc.created]]

\* __delete_document_internal(container_name, blob_name): the chunk ids of the
\* object are taken from the reverse mapping, then the loop starts; after the
\* loop the full text is deleted
BeginDelete_TextOnly(s, after) ==
    LET chunk_ids == get_chunk_ids_by_blob(s.reverse_mapping, DocContainer, DocName)
        t == [s EXCEPT !.pc = "doc", !.doc.chunk_ids = chunk_ids, !.doc.k = 1,
                       !.doc.after = after, !.doc.exc = FALSE]
    IN  ToDelete(DocCall(t, "del_text"), TextFile)
BeginDelete(s, after) ==
    LET chunk_ids == get_chunk_ids_by_blob(s.reverse_mapping, DocContainer, DocName)
        t == [s EXCEPT !.pc = "doc", !.doc.chunk_ids = chunk_ids, !.doc.k = 1,
                       !.doc.after = after, !.doc.exc = FALSE]
    IN  IF chunk_ids = <<>>
        THEN ToDelete(DocCall(t, "del_text"), TextFile)
        ELSE [t EXCEPT !.doc.phase = "del_read"]

\* except Exception in process_and_save_document: the rollback
\* __delete_document_internal, then raise; an exception inside the rollback
\* leaves process_and_save_document at once
Except(s) ==
    IF s.doc.handler
    THEN Finish(s, "failed")
    ELSE BeginDelete([s EXCEPT !.doc.handler = TRUE], "raise")

\* an exception leaves __delete_document_internal
DelExcept(s) == IF s.doc.op = "timer" THEN Finish(s, "failed") ELSE Except(s)

\* the next pass of the loop over chunk_ids, or the statement after the loop
DelNext(s) ==
    IF s.doc.k < Len(s.doc.chunk_ids)
    THEN [s EXCEPT !.pc = "doc", !.doc.k = @ + 1, !.doc.phase = "del_read"]
    ELSE ToDelete(DocCall(s, "del_text"), TextFile)

\* the uploads that follow mapping_manager.add: one object per chunk, the page,
\* the full text
UploadNext(s) ==
    IF s.doc.k <= Len(s.doc.chunk_ids)
    THEN ToUpload(DocCall(s, "chunk_upload"), ChunkFile(s.doc.chunk_ids[s.doc.k]),
                  ChunkData(s.doc.texts[s.doc.k]), "next")
    ELSE IF s.doc.texts # <<>>
    THEN ToUpload(DocCall(s, "page_upload"), PageFile, TextData(s.doc.texts), "next")
    ELSE ToUpload(DocCall(s, "text_upload"), TextFile, TextData(s.doc.texts), "next")

\* what the processor does next, b being the store as its read sees it
DocContinue(s, b) ==
    CASE s.doc.phase = "get_metadata" ->
            \* index_queued_blobs: skip a processed document; otherwise
            \* process_and_save_document, which first looks for existing chunks
            IF /\ "processed" \in DOMAIN Metadata(b[DocFile])
               /\ Metadata(b[DocFile]).processed = "true"
            THEN Finish(s, "skipped")
            ELSE IF get_chunk_ids_by_blob(s.reverse_mapping, DocContainer, DocName) # <<>>
            THEN BeginDelete([s EXCEPT !.doc.earlier =
                                 get_chunk_ids_by_blob(s.reverse_mapping, DocContainer,
                                                       DocName)],
                             "parse")
            ELSE [s EXCEPT !.doc.phase = "parse"]
      [] s.doc.phase = "parse" ->
            \* blob_manager.read(container_name, blob_name), the parser, then
            \* mapping_manager.add
            IF b[DocFile] = Absent
            THEN Except(s)
            ELSE BeginAdd([s EXCEPT !.doc.phase = "add"], s.doc.texts)
      [] s.doc.phase = "add" ->
            IF s.call.result = "raised"
            THEN Except(s)
            ELSE UploadNext([s EXCEPT !.doc.chunk_ids = s.call.added_chunks, !.doc.k = 1,
                                      !.doc.created = s.call.added_chunks])
      [] s.doc.phase = "chunk_upload" ->
            IF s.doc.exc THEN Except(s) ELSE UploadNext([s EXCEPT !.doc.k = @ + 1])
      [] s.doc.phase = "page_upload" ->
            IF s.doc.exc THEN Except(s)
            ELSE ToUpload(DocCall(s, "text_upload"), TextFile, TextData(s.doc.texts), "next")
      [] s.doc.phase = "text_upload" ->
            IF s.doc.exc THEN Except(s)
            ELSE ToAddMetadata(DocCall(s, "chunk_ids_metadata"), DocFile,
                               [chunk_ids |-> s.doc.chunk_ids])
      [] s.doc.phase = "chunk_ids_metadata" ->
            \* process_and_save_document returned: the handler marks the document
            IF s.doc.exc THEN Except(s)
            ELSE ToAddMetadata(DocCall(s, "processed_metadata"), DocFile,
                               [processed |-> "true"])
      [] s.doc.phase = "processed_metadata" ->
            \* process_and_save_document has returned; add_metadata raising
            \* leaves the document without the mark
            IF s.doc.exc THEN Finish(s, "unmarked") ELSE Finish(s, "processed")
      [] s.doc.phase = "del_read" ->
            \* json.loads(blob_manager.read(chunk file)), then
            \* mapping_manager.remove(chunk_id)
            IF ~IsJson(b[ChunkFile(s.doc.chunk_ids[s.doc.k])])
            THEN DelExcept(s)
            ELSE BeginRemove([s EXCEPT !.doc.phase = "remove"], s.doc.chunk_ids[s.doc.k])
      [] s.doc.phase = "remove" ->
            IF s.call.result = "raised"
            THEN DelExcept(s)
            ELSE ToDelete(DocCall([s EXCEPT !.gone = @ \cup {s.doc.chunk_ids[s.doc.k]}],
                                  "del_chunk"),
                          ChunkFile(s.doc.chunk_ids[s.doc.k]))
      [] s.doc.phase = "del_chunk" ->
            \* if page_number and blob_exist(page file): delete it
            IF s.doc.exc THEN DelExcept(s)
            ELSE IF b[PageFile] # Absent
            THEN ToDelete(DocCall(s, "del_page"), PageFile)
            ELSE DelNext(s)
      [] s.doc.phase = "del_page" ->
            IF s.doc.exc THEN DelExcept(s) ELSE DelNext(s)
      [] OTHER ->
            \* "del_text": __delete_document_internal returns
            IF s.doc.exc THEN DelExcept(s)
            ELSE IF s.doc.after = "parse" THEN [s EXCEPT !.pc = "doc", !.doc.phase = "parse"]
            ELSE IF s.doc.after = "raise" THEN Finish(s, "failed")
            ELSE Finish(s, "deleted")

\* index_queued_blobs(azqueue) for the document; texts is what the parser makes
\* of it
StartQueue(p, texts) ==
    /\ mgr[p].pc = "idle"
    /\ Len(mgr[p].issued) + Len(texts) <= MaxIds
    /\ mgr' = [mgr EXCEPT ![p] =
                 [@ EXCEPT !.pc = "doc",
                           !.doc = [NoDoc EXCEPT !.op = "queue", !.phase = "get_metadata",
                                                 !.texts = texts]]]
    /\ UNCHANGED <<blob, lease, nfaults, npauses>>

\* check_deleted_blobs(timer) finds the document gone: delete_document
StartTimer(p) ==
    /\ mgr[p].pc = "idle"
    /\ blob[DocFile] = Absent
    /\ mgr' = [mgr EXCEPT ![p] =
                 BeginDelete([@ EXCEPT !.doc = [NoDoc EXCEPT !.op = "timer"]], "done")]
    /\ UNCHANGED <<blob, lease, nfaults, npauses>>

\* One step of the processor.  BlobManager.get_metadata goes through get_client
\* with create_if_not_exists left at True: an absent document is created empty.
DocStep(p) ==
    LET s == mgr[p]
    IN  /\ s.pc = "doc"
        /\ blob' = IF s.doc.phase = "get_metadata" /\ blob[DocFile] = Absent
                   THEN [blob EXCEPT ![DocFile] = EmptyBytes] ELSE blob
        /\ mgr' = [mgr EXCEPT ![p] = DocContinue(s, blob)]
        /\ UNCHANGED <<lease, nfaults, npauses>>

\* the owner of the document deletes it from the document container
UserDelete ==
    /\ blob[DocFile] # Absent
    /\ ~IsLeased(lease[DocFile])
    /\ blob' = [blob EXCEPT ![DocFile] = Absent]
    /\ UNCHANGED <<lease, mgr, nfaults, npauses>>

\* the store when the application starts: as in Init, and the document is in
\* the document container or has been deleted from it
InitApp ==
    /\ \E b \in {Absent, [kind |-> "doc"]} :
          blob = [f \in Files |->
                    CASE f = IdxFile -> IndexMappingBytes(0, EmptyMap)
                      [] f = BlobFile -> BlobMappingBytes(EmptyDict)
                      [] f = DocFile -> b
                      [] OTHER -> Absent]
    /\ lease = [f \in Files |-> Available]
    /\ mgr = [p \in Managers |-> InitMgr]
    /\ nfaults = 0
    /\ npauses = 0

StepApp(p) ==
    \/ \E texts \in TextLists : StartQueue(p, texts)
    \/ StartTimer(p)
    \/ DocStep(p)
    \/ Lease(p)
    \/ Grant(p)
    \/ Put(p)
    \/ Release(p)
    \/ Read(p)
    \/ Searcher(p)
    \/ Cleanup(p)

NextApp == StepApp(1) \/ UserDelete \/ Tick \/ Pause

SpecApp == InitApp /\ [][NextApp]_vars

\* two manager instances over the same store, each adding one text
StepConc(p) ==
    \/ \E source \in Sources : mgr[p].call.op = "none" /\ StartAdd(p, <<Text(p)>>, source)
    \/ Lease(p)
    \/ Grant(p)
    \/ Put(p)
    \/ Release(p)
    \/ Read(p)
    \/ Searcher(p)
    \/ Cleanup(p)

NextConc == (\E p \in Managers : StepConc(p)) \/ Tick \/ Pause

SpecConc == InitConc /\ [][NextConc]_vars

---------------------------------------------------------------------------
(* What the readers of the mapping files see *)

\* ChunkIndexMapping.__load_from_storage as a reader sees it: the stored
\* counter and id map, or the reset values when the object does not decode
PersistedCounter ==
    IF IsIndexMapping(blob[IdxFile]) THEN JsonLoads(blob[IdxFile]).id_counter ELSE 0
PersistedIdMap ==
    IF IsIndexMapping(blob[IdxFile]) THEN JsonLoads(blob[IdxFile]).id_map ELSE EmptyMap
\* ChunkBlobMapping.__load_from_storage as a reader sees it
PersistedBlobMap ==
    IF IsJson(blob[BlobFile]) THEN AsMap(JsonLoads(blob[BlobFile])) ELSE EmptyMap

\* ChunkIndexMapping.get_index_ids: reload, then id_map.get(chunk_id); None, which
\* the callers treat as an empty dict, is the empty map here
get_index_ids(chunk_id) ==
    IF chunk_id \in DOMAIN PersistedIdMap THEN PersistedIdMap[chunk_id] ELSE EmptyMap

\* int(chunk_id): the number whose str() is the chunk id
StrToInt(str) == CHOOSE n \in 0..MaxIds : ToString(n) = str

\* ChunkIndexMapping.get_chunk_id(index_name, index_id): reload, then the first
\* chunk of id_map, in the order the chunks were entered, whose index_ids carry
\* index_id under index_name; None (NoChunk) when there is none
NoChunk == ""
get_chunk_id(index_name, index_id) ==
    LET matches == {c \in DOMAIN PersistedIdMap :
                      /\ index_name \in DOMAIN PersistedIdMap[c]
                      /\ PersistedIdMap[c][index_name] = index_id}
    IN  IF matches = {} THEN NoChunk
        ELSE CHOOSE c \in matches : \A d \in matches : StrToInt(c) <= StrToInt(d)

\* KeywordSearch(blob_manager, container, 'indexes/keyword_index').search(query, k)
\* as search_keyword runs it on the store as it is: the index is loaded from the
\* store, every hit is resolved by get_chunk_id, and the chunk object of a hit
\* that resolves is read and decoded
KeywordHits(query, k) == BM25Search(LoadKeywordIndex(blob[KwFile]), query, k)

\* blob_manager.read raises ResourceNotFoundError for an absent chunk object,
\* json.loads raises for an empty one
HydrateRaises(chunk_id) == ~IsJson(blob[ChunkFile(chunk_id)])

KeywordSearchRaises(query, k) ==
    \E n \in 1..Len(KeywordHits(query, k)) :
       LET chunk_id == get_chunk_id("keyword", KeywordHits(query, k)[n])
       IN  chunk_id # NoChunk /\ HydrateRaises(chunk_id)

\* one entry of the result list; chunk_id is the chunk the entry was made from
\* (the entry itself carries the backend id, the text, the source, the page)
ResultEntry(doc_id, chunk_id) ==
    [id |-> doc_id,
     chunk_id |-> chunk_id,
     chunk |-> IF chunk_id # NoChunk /\ IsJson(blob[ChunkFile(chunk_id)])
               THEN JsonLoads(blob[ChunkFile(chunk_id)]).text ELSE "",
     document_name |->
        LET blob_info == get_blob_info(IF IsJson(blob[BlobFile])
                                       THEN JsonLoads(blob[BlobFile]) ELSE EmptyDict,
                                       chunk_id)
        IN  IF blob_info # None THEN blob_info.blob ELSE "not found"]

\* the result list of a search that does not raise
KeywordSearchResults_Unfiltered(query, k) ==
    LET hits == KeywordHits(query, k)
    IN  [n \in 1..Len(hits) |-> ResultEntry(hits[n], get_chunk_id("keyword", hits[n]))]
KeywordSearchResults(query, k) ==
    LET hits == SelectSeq(KeywordHits(query, k),
                          LAMBDA d : get_chunk_id("keyword", d) # NoChunk)
    IN  [n \in 1..Len(hits) |-> ResultEntry(hits[n], get_chunk_id("keyword", hits[n]))]

\* VectorSearch(blob_manager, container, 'indexes/vector_index'): the constructor
\* hands what blob_manager.read returns to VoyagerIndexManager.load_from_byte and
\* catches ResourceNotFoundError only
VectorSearchInitRaises == VectorLoadRaises(blob[VecFile])

Elems(seq) == {seq[n] : n \in 1..Len(seq)}

---------------------------------------------------------------------------
(* Claims *)

\* C1: in add and remove, every write that persists a mapping file is made
\* while the calling manager holds, at the store, the active leases on both
\* mapping files that the call acquired at its start.
C1_WritesUnderCallLeases ==
    [][\A p \in Managers :
         (/\ mgr[p].call.op \in {"add", "remove"}
          /\ mgr[p].pc = "put"
          /\ mgr[p].up.f \in MappingFiles
          /\ blob'[mgr[p].up.f] = mgr[p].up.data
          /\ mgr'[p].pc = "release"
          /\ ~mgr'[p].up.raising)
         => /\ IsLeased(lease[IdxFile])
            /\ lease[IdxFile].id = mgr[p].call.index_lease_id
            /\ IsLeased(lease[BlobFile])
            /\ lease[BlobFile].id = mgr[p].call.blob_lease_id]_vars

\* C2: once two add calls of two manager instances on the same mapping files
\* have both returned, the persisted backend-id map and the persisted source
\* map each hold an entry for every chunk id either call returned.
C2_UnionPersisted ==
    (\A p \in Managers : /\ mgr[p].pc = "idle"
                         /\ mgr[p].call.op = "add"
                         /\ mgr[p].call.result = "returned")
    => \A p \in Managers : \A c \in Elems(mgr[p].call.added_chunks) :
          /\ c \in DOMAIN PersistedIdMap
          /\ c \in DOMAIN PersistedBlobMap

\* C3: no chunk id is returned by get_new_id more than once, whether to the
\* same manager or to two managers adding concurrently.
C3_UniqueIds ==
    \A p, q \in Managers :
       \A i \in 1..Len(mgr[p].issued), j \in 1..Len(mgr[q].issued) :
          (p # q \/ i # j) => mgr[p].issued[i] # mgr[q].issued[j]

\* C4: with a single writer, over any sequence of add, remove and restart,
\* every id get_new_id returns is the string form of an integer strictly
\* greater than every id issued before it.
C4_StrictlyIncreasing ==
    \A p \in Managers :
       \A i, j \in 1..Len(mgr[p].issued) :
          i < j => StrToInt(mgr[p].issued[i]) < StrToInt(mgr[p].issued[j])

\* C4 witness: all ids of the bound were issued, the first chunk was removed
\* from the backends and the maps, the last one is registered
C4_Witness ==
    /\ Len(mgr[1].issued) = MaxIds
    /\ mgr[1].vector_index.deleted # {}
    /\ mgr[1].issued[1] \notin DOMAIN PersistedIdMap
    /\ mgr[1].issued[MaxIds] \in DOMAIN PersistedIdMap

\* C5: when add or remove has returned or raised, the manager holds no lease
\* on either mapping file at the store and its lease registry has no entry for
\* either file.
C5_LeasesReleased ==
    \A p \in Managers :
       (mgr[p].pc = "idle" /\ mgr[p].call.op \in {"add", "remove"})
       => \A f \in MappingFiles :
             /\ mgr[p].leases[f] = NoLease
             /\ lease[f].id.by # p

\* C5 witness: an add that had acquired the lease of the backend-id map file
\* has raised
C5_Witness ==
    /\ mgr[1].pc = "idle"
    /\ mgr[1].call.op = "add"
    /\ mgr[1].call.result = "raised"
    /\ mgr[1].call.index_lease_id # NoLease

\* C6: as long as add has not acquired the leases on both mapping files, and
\* when it raises for want of one of them, it has allocated no chunk id, called
\* no backend and written neither mapping file.
C6_NothingBeforeLeases ==
    \A p \in Managers :
       (/\ mgr[p].call.op = "add"
        /\ \/ mgr[p].call.index_lease_id = NoLease
           \/ mgr[p].call.blob_lease_id = NoLease)
       => /\ mgr[p].call.new_ids = 0
          /\ mgr[p].call.backend_calls = {}
          /\ mgr[p].call.writes = 0
          /\ mgr[p].call.added_chunks = <<>>

\* C6 witness: an add of two texts has raised with the first lease acquired and
\* the second one refused
C6_Witness ==
    /\ mgr[1].pc = "idle"
    /\ mgr[1].call.op = "add"
    /\ mgr[1].call.result = "raised"
    /\ Len(mgr[1].call.texts) = MaxTexts
    /\ mgr[1].call.index_lease_id # NoLease
    /\ mgr[1].call.blob_lease_id = NoLease

\* C7: an acquire that found the resource leased by another actor never obtains
\* the lease as long as that actor has not released it (it raises after the
\* retry budget instead).
C7_NeverObtainsUnreleased ==
    [][(/\ mgr[1].call.step = "lease_idx"
        /\ mgr[1].pc = "grant"
        /\ mgr[1].up.attempt > 0
        /\ lease[IdxFile].id = OtherId)
       => mgr'[1].leases[IdxFile] = NoLease]_vars

\* C8: when the remove of a backend raises in remove(chunk_id), every backend
\* of the chunk is still called, the call raises only if a mapping file could
\* not be written, and when it returns the chunk has no entry in the persisted
\* backend-id map or in the persisted source map.
C8_RemoveTolerates ==
    \A p \in Managers :
       (/\ mgr[p].pc = "idle"
        /\ mgr[p].call.op = "remove"
        /\ mgr[p].call.backend_errors # {})
       => /\ mgr[p].call.backend_calls = SearcherNames
          /\ mgr[p].call.result = "raised" => mgr[p].call.mapping_errors > 0
          /\ mgr[p].call.result = "returned" =>
                /\ mgr[p].call.chunk_id \notin DOMAIN PersistedIdMap
                /\ mgr[p].call.chunk_id \notin DOMAIN PersistedBlobMap

\* C8 witness: the first backend failed, and remove returned
C8_Witness ==
    /\ mgr[1].pc = "idle"
    /\ mgr[1].call.op = "remove"
    /\ mgr[1].call.backend_errors = {searchers[1]}
    /\ mgr[1].call.result = "returned"

\* C9: when a backend's add raises in add, the call raises, the chunk id of
\* that text has no entry in either persisted map, no later text is processed,
\* and the chunks completed earlier in the call stay in both persisted maps.
C9_AddPropagates ==
    \A p \in Managers :
       (/\ mgr[p].pc = "idle"
        /\ mgr[p].call.op = "add"
        /\ mgr[p].call.backend_errors # {})
       => /\ mgr[p].call.result = "raised"
          /\ mgr[p].call.chunk_id \notin DOMAIN PersistedIdMap
          /\ mgr[p].call.chunk_id \notin DOMAIN PersistedBlobMap
          /\ mgr[p].call.new_ids = Len(mgr[p].call.added_chunks) + 1
          /\ \A c \in Elems(mgr[p].call.added_chunks) :
                /\ c \in DOMAIN PersistedIdMap
                /\ c \in DOMAIN PersistedBlobMap

\* C9 witness: the backend failed on the second text of an add
C9_Witness ==
    /\ mgr[1].pc = "idle"
    /\ mgr[1].call.op = "add"
    /\ mgr[1].call.backend_errors # {}
    /\ Len(mgr[1].call.added_chunks) = 1

\* C10: for every chunk id add returned and remove was not called for,
\* get_index_ids returns one entry per registered backend, whose value is the
\* id the backend gave that text (the position of the text in its index).
C10_OneEntryPerBackend ==
    \A p \in Managers : \A c \in DOMAIN mgr[p].live :
       LET ids == get_index_ids(c)
       IN  /\ DOMAIN ids = SearcherNames
           /\ ids["keyword"] < Len(mgr[p].keyword_index.docs)
           /\ mgr[p].keyword_index.docs[ids["keyword"] + 1] = mgr[p].live[c]
           /\ ids["vector"] < Len(mgr[p].vector_index.items)
           /\ mgr[p].vector_index.items[ids["vector"] + 1] = mgr[p].live[c]

\* C10 witness: a chunk is still registered after the removal of another one
C10_Witness ==
    /\ mgr[1].pc = "idle"
    /\ mgr[1].call.op = "remove"
    /\ mgr[1].call.result = "returned"
    /\ mgr[1].call.chunk_id \in Elems(mgr[1].issued)
    /\ mgr[1].call.backend_calls = SearcherNames
    /\ mgr[1].live # EmptyMap

\* C11: for every backend no two chunk ids of the backend-id map carry the
\* same backend id, and the record the persisted index of the backend holds
\* under the id mapped to a chunk that add returned is that chunk's text.
C11_Lockstep ==
    /\ \A name \in SearcherNames : \A c1, c2 \in DOMAIN PersistedIdMap :
          (/\ c1 # c2
           /\ name \in DOMAIN PersistedIdMap[c1]
           /\ name \in DOMAIN PersistedIdMap[c2])
          => PersistedIdMap[c1][name] # PersistedIdMap[c2][name]
    /\ \A p \in Managers : \A c \in DOMAIN mgr[p].live :
          (c \in DOMAIN PersistedIdMap /\ DOMAIN PersistedIdMap[c] = SearcherNames)
          => LET kw == LoadKeywordIndex(blob[KwFile]).docs
                 vec == LoadVectorIndex(blob[VecFile]).items
                 ids == PersistedIdMap[c]
             IN  /\ ids["keyword"] < Len(kw)
                 /\ kw[ids["keyword"] + 1] = mgr[p].live[c]
                 /\ ids["vector"] < Len(vec)
                 /\ vec[ids["vector"] + 1] = mgr[p].live[c]

\* a call of p holds the lease of file f at the store and is in acquire_lease
\* for file g, which it found leased
C17_HoldsAndWaits(p, f, g) ==
    /\ IsLeased(lease[f])
    /\ lease[f].id.by = p
    /\ mgr[p].pc = "lease"
    /\ mgr[p].up.f = g
    /\ mgr[p].up.attempt > 0
    /\ IsLeased(lease[g])

\* C17: add and remove never request the lease of the backend-id map file
\* while holding the lease of the source-map file, and no two calls ever each
\* hold one of the two leases while waiting for the other.
C17_LockOrder ==
    /\ \A p \in Managers :
          ~(/\ mgr[p].pc \in {"lease", "grant"}
            /\ mgr[p].up.f = IdxFile
            /\ IsLeased(lease[BlobFile])
            /\ lease[BlobFile].id.by = p)
    /\ \A p, q \in Managers :
          p # q => ~(C17_HoldsAndWaits(p, BlobFile, IdxFile) /\ C17_HoldsAndWaits(q, IdxFile, BlobFile))

\* C17, second half alone: no two calls each hold one of the two leases and
\* wait for the other
C17_NoCrossWait ==
    \A p, q \in Managers :
       p # q => ~(C17_HoldsAndWaits(p, BlobFile, IdxFile) /\ C17_HoldsAndWaits(q, IdxFile, BlobFile))

\* manager p takes a step that is release_lease(container, f)
C18_Releases(p, f) ==
    /\ mgr'[p].pc # mgr[p].pc
    /\ \/ mgr[p].pc = "release" /\ mgr[p].up.f = f
       \/ mgr[p].pc = "cleanup_idx" /\ f = IdxFile /\ mgr[p].call.index_lease_id # NoLease
       \/ mgr[p].pc = "cleanup_blob" /\ f = BlobFile /\ mgr[p].call.blob_lease_id # NoLease

\* C18: release_lease on an object whose lease was already released or never
\* taken, or whose lease is now held by someone else, returns normally, leaves
\* every lease at the store as it was (another holder's lease included) and
\* leaves the registry without an entry for the object; a lease the instance
\* does hold is freed; no other object's lease is touched.
C18_ReleaseIdempotent ==
    [][\A p \in Managers : \A f \in Files :
          C18_Releases(p, f) =>
             /\ mgr'[p].leases[f] = NoLease
             /\ \A g \in Files \ {f} : lease'[g] = lease[g]
             /\ (mgr[p].leases[f] = NoLease \/ lease[f].id # mgr[p].leases[f])
                   => lease' = lease
             /\ (mgr[p].leases[f] # NoLease /\ lease[f].id = mgr[p].leases[f])
                   => lease'[f] = Available
             /\ mgr[p].pc = "cleanup_idx" => mgr'[p].pc = "cleanup_blob"
             /\ mgr[p].pc = "cleanup_blob" => mgr'[p].pc = "idle"]_vars

\* the finally block of a call has released the backend-id map file while its
\* lease was held by another client
C18_Witness ==
    /\ mgr[1].pc = "cleanup_blob"
    /\ mgr[1].call.index_lease_id # NoLease
    /\ mgr[1].leases[IdxFile] = NoLease
    /\ IsLeased(lease[IdxFile])
    /\ lease[IdxFile].id = OtherId

\* C19: once release_all_leases has run at the teardown of an instance, the
\* registry of the instance is empty and no lease the instance acquired is
\* still held at the store.
C19_ReleaseAll ==
    \A p \in Managers :
       (mgr[p].pc = "down" \/ (mgr[p].call.op = "init" /\ mgr[p].call.step = "init_idx"
                               /\ mgr[p].pc = "read"))
       => \A f \in Files :
             /\ mgr[p].leases[f] = NoLease
             /\ ~(IsLeased(lease[f]) /\ lease[f].id.by = p)

\* an instance was torn down while it held a lease, which release_all_leases
\* released
C19_Witness ==
    /\ mgr[1].pc = "down"
    /\ mgr[1].call.result = "released"

\* C20: every change of a stored object is made by the upload of a manager
\* that holds, at that moment, the lease on the object which its
\* with_blob_lease wrapper acquired and passed to the write, and the step
\* after the write releases that lease whether the write was accepted or not.
C20_WritesUnderLease ==
    [][/\ \A f \in Files :
             blob'[f] # blob[f]
             => \E p \in Managers :
                   /\ mgr[p].pc = "put"
                   /\ mgr[p].up.f = f
                   /\ IsLeased(lease[f])
                   /\ lease[f].id = mgr[p].up.lease_id
       /\ \A p \in Managers :
             (mgr[p].pc = "release" /\ mgr'[p].pc # "release")
             => /\ mgr'[p].leases[mgr[p].up.f] = NoLease
                /\ ~(IsLeased(lease'[mgr[p].up.f]) /\ lease'[mgr[p].up.f].id.by = p)]_vars

\* C12: a position that BM25IndexManager.remove was called for is returned by
\* no search, whatever the query and k, until unmark_deleted is called for it.
C12_RemovedNotReturned ==
    \A p \in Managers : \A id \in mgr[p].removed :
       \A query \in Texts, k \in 1..MaxDocs :
          id \notin Elems(BM25Search(mgr[p].keyword_index, query, k))

\* the chunk ids of the forward mapping, in the order of its items, whose entry
\* is (container, blob_name)
C16_ChunksOfSource(mapping, container, blob_name) ==
    LET hit(e) == e[2] = [container |-> container, blob |-> blob_name]
        items == SelectSeq(mapping, hit)
    IN  [n \in 1..Len(items) |-> items[n][1]]

\* C16: in every instance of the source map, after any add_mapping,
\* remove_mapping and load, get_chunk_ids_by_blob(container, object) is the
\* sequence of the chunk ids whose forward entry is (container, object), in the
\* order in which they were inserted into the forward mapping.
C16_ReverseDerivable ==
    \A p \in Managers : \A c \in Containers, b \in BlobNames :
       get_chunk_ids_by_blob(mgr[p].reverse_mapping, c, b)
          = C16_ChunksOfSource(mgr[p].mapping, c, b)

\* add_mapping has returned, the source map holds three chunks of two objects
\* and one object has two chunks, inserted in the order "1", "0"
C16_Witness ==
    /\ mgr[1].pc = "idle"
    /\ mgr[1].call.op = "add_mapping"
    /\ mgr[1].call.result = "returned"
    /\ Len(mgr[1].mapping) = 3
    /\ get_chunk_ids_by_blob(mgr[1].reverse_mapping, "b", "a.pdf") = <<"1", "0">>
    /\ get_chunk_ids_by_blob(mgr[1].reverse_mapping, "docs", "b:a.pdf") = <<"2">>

\* the queries and result counts of the search requests considered
Queries == {Text(i) : i \in 1..MaxTexts}
Ks == 1..MaxIds

\* the document processor is between two of its steps (a search request that
\* arrives now runs concurrently with the ingestion or the deletion)
Processing(p) == DocActive(mgr[p])

\* C14: the read operations (here BlobManager.get_metadata, the first step of
\* index_queued_blobs) leave every stored object and every lease as they were.
C14_ReadsChangeNothing ==
    [][\A p \in Managers :
          (mgr[p].pc = "doc" /\ mgr[p].doc.phase = "get_metadata"
           /\ mgr'[p].doc.phase # "get_metadata")
          => (blob' = blob /\ lease' = lease)]_vars

\* C13: a keyword search that runs while the document processor is between two
\* steps of an ingestion or a deletion does not raise.
C13_SearchNeverRaises ==
    \A p \in Managers :
       Processing(p) => \A query \in Queries : \A k \in Ks : ~KeywordSearchRaises(query, k)

\* C15: once remove(chunk_id) has returned, no entry of a keyword search is made
\* from that chunk, and the backend id of every entry is the one the backend-id
\* map holds for the chunk the entry was made from.
C15_NoResultForRemoved ==
    \A query \in Queries : \A k \in Ks :
       LET results == KeywordSearchResults(query, k)
       IN  \A n \in 1..Len(results) :
              /\ \A p \in Managers : results[n].chunk_id \notin mgr[p].gone
              /\ results[n].chunk_id \in DOMAIN PersistedIdMap
              /\ "keyword" \in DOMAIN PersistedIdMap[results[n].chunk_id]
              /\ PersistedIdMap[results[n].chunk_id]["keyword"] = results[n].id
\* a remove has returned, the keyword backend still ranks a record that no
\* chunk of the backend-id map owns, and a search that does not raise returns
\* entries, fewer than the backend ranked
C15_Witness ==
    /\ \E p \in Managers : mgr[p].gone # {}
    /\ ~KeywordSearchRaises(Text(1), MaxIds)
    /\ KeywordSearchResults(Text(1), MaxIds) # <<>>
    /\ Len(KeywordSearchResults(Text(1), MaxIds)) < Len(KeywordHits(Text(1), MaxIds))
\* C21: BM25IndexManager.add of n documents returns the n consecutive positions
\* from the document count before the call on, none of which an earlier add
\* returned, and after every call of add, remove, unmark_deleted, search or a
\* reload every id an add returned still is the position of the document it was
\* returned for.
C21_StablePositions ==
    [][\A p \in Managers :
          LET before == mgr[p].keyword_index
              after == mgr'[p].keyword_index
              ids == mgr'[p].bm25.ids
          IN  /\ \A id \in DOMAIN mgr[p].handed :
                    /\ id < Len(after.docs)
                    /\ after.docs[id + 1] = mgr[p].handed[id]
              /\ (mgr'[p].bm25.op = "add" /\ Len(after.docs) > Len(before.docs))
                 => /\ Len(ids) = Len(after.docs) - Len(before.docs)
                    /\ \A n \in 1..Len(ids) :
                          /\ ids[n] = Len(before.docs) + n - 1
                          /\ ids[n] \notin DOMAIN mgr[p].handed
                          /\ after.docs[ids[n] + 1] = mgr'[p].handed[ids[n]]]_vars
\* an add of two documents has returned after an earlier add and a remove
C21_Witness ==
    \E p \in Managers :
       /\ mgr[p].bm25.op = "add"
       /\ Len(mgr[p].bm25.ids) = 2
       /\ mgr[p].removed # {}
       /\ mgr[p].keyword_index.deleted_flags # {}
       /\ Cardinality(DOMAIN mgr[p].handed) = 3
\* C22: after every add, remove or unmark_deleted of BM25IndexManager that
\* returned, __active_indices is the ascending list of the positions without
\* tombstone, the ranking model is built from the documents at those positions,
\* and every tombstone is a position of the document list.
C22_ActiveIsComplement ==
    \A p \in Managers :
       LET ki == mgr[p].keyword_index
       IN  (mgr[p].bm25.op \in {"add", "remove", "unmark_deleted"} /\ ~mgr[p].bm25.raised)
           => /\ ki.index
              /\ ki.active = ActiveIndices(ki)
              /\ ki.corpus = [n \in 1..Len(ki.active) |-> ki.docs[ki.active[n] + 1]]
              /\ \A n \in 1..Len(ki.active) :
                    /\ ki.active[n] \notin ki.deleted_flags
                    /\ n > 1 => ki.active[n - 1] < ki.active[n]
              /\ \A i \in 0..(Len(ki.docs) - 1) :
                    i \notin ki.deleted_flags => \E n \in 1..Len(ki.active) : ki.active[n] = i
              /\ ki.deleted_flags \subseteq 0..(Len(ki.docs) - 1)
\* a remove has returned on a manager that keeps an active document behind a
\* tombstone
C22_Witness ==
    \E p \in Managers :
       /\ mgr[p].bm25.op = "remove"
       /\ ~mgr[p].bm25.raised
       /\ 0 \in mgr[p].keyword_index.deleted_flags
       /\ mgr[p].keyword_index.active = <<1>>
\* what C23 says of the result of search(query, k) on the manager ki
C23_SearchContract(ki, query, k) ==
    LET ids == BM25Search(ki, query, k)
        scores == BM25Scores(ki, query, k)
    IN  /\ Len(ids) = Len(scores)
        /\ Len(ids) <= k
        /\ \A n \in 1..Len(ids) : ids[n] \notin ki.deleted_flags
        /\ ActiveIndices(ki) # <<>> => Len(ids) = Min(k, Len(ActiveIndices(ki)))
        /\ \A n, m \in 1..Len(ids) :
              n < m => /\ scores[n] >= scores[m]
                       /\ scores[n] = scores[m] => ids[n] < ids[m]

\* C23: BM25IndexManager.search(query, k) returns positions without tombstone
\* only, min(k, number of active documents) of them, by descending score, equal
\* scores by ascending position, with as many scores as ids.
C23_SearchRanksActive ==
    \A p \in Managers : \A query \in Texts, k \in 1..MaxDocs :
       C23_SearchContract(mgr[p].keyword_index, query, k)
\* what C24 says of the manager loaded from the export of the manager original
C24_SameManager(original, loaded) ==
    /\ loaded.docs = original.docs
    /\ loaded.deleted_flags = original.deleted_flags
    /\ loaded.k1 = original.k1
    /\ loaded.b = original.b
    /\ \A query \in Texts, k \in 1..MaxDocs :
          /\ BM25Search(loaded, query, k) = BM25Search(original, query, k)
          /\ BM25Scores(loaded, query, k) = BM25Scores(original, query, k)
    /\ \A documents \in Documents : AddIds(loaded, documents) = AddIds(original, documents)

\* C24: load_from_byte(export()) of a BM25IndexManager that can be exported
\* returns a manager with the same documents, tombstones, k1 and b, the same
\* search results and the same ids for the next add.
C24_RoundTrip ==
    [][\A p \in Managers :
          (mgr'[p].bm25.op = "reload" /\ ~ExportRaises(mgr[p].keyword_index))
          => /\ ~mgr'[p].bm25.raised
             /\ C24_SameManager(mgr[p].keyword_index, mgr'[p].keyword_index)]_vars
\* Scenario B: the manager holds document 0, which has the term asked for, and
\* document 1, which has not, and remove(0) has returned
ScenarioB(p) ==
    /\ mgr[p].keyword_index.docs = <<Text(1), Text(2)>>
    /\ mgr[p].bm25.op = "remove"
    /\ ~mgr[p].bm25.raised
    /\ mgr[p].keyword_index.deleted_flags = {0}

\* C25: in scenario B, search(term, 5) returns no id and no score.
C25_NoMatchNotReturned ==
    \A p \in Managers :
       ScenarioB(p) => /\ BM25Search(mgr[p].keyword_index, Text(1), 5) = <<>>
                       /\ BM25Scores(mgr[p].keyword_index, Text(1), 5) = <<>>
\* C26: on a BM25IndexManager that no document was added to, add returns,
\* while remove and search raise and leave the manager as it was.
C26_UninitializedOps ==
    [][\A p \in Managers :
          ~mgr[p].keyword_index.index
          => /\ mgr'[p].bm25.op = "add"
                => ~mgr'[p].bm25.raised /\ mgr'[p].keyword_index.index
             /\ mgr'[p].bm25.op \in {"remove", "search"}
                => /\ mgr'[p].bm25.raised
                   /\ mgr'[p].keyword_index = mgr[p].keyword_index]_vars
\* C26, amended: on a BM25IndexManager that no document was added to, add
\* returns, remove raises, search returns no id and no score, and remove and
\* search leave the manager as it was.
C26_UninitializedOpsAmended ==
    [][\A p \in Managers :
          ~mgr[p].keyword_index.index
          => /\ mgr'[p].bm25.op = "add"
                => ~mgr'[p].bm25.raised /\ mgr'[p].keyword_index.index
             /\ mgr'[p].bm25.op = "remove"
                => /\ mgr'[p].bm25.raised
                   /\ mgr'[p].keyword_index = mgr[p].keyword_index
             /\ mgr'[p].bm25.op = "search"
                => /\ ~mgr'[p].bm25.raised
                   /\ mgr'[p].bm25.ids = <<>>
                   /\ mgr'[p].bm25.scores = <<>>
                   /\ mgr'[p].keyword_index = mgr[p].keyword_index]_vars
\* a remove has raised on a manager that no document was added to
C26_Witness ==
    \E p \in Managers :
       /\ ~mgr[p].keyword_index.index
       /\ mgr[p].bm25.op = "remove"
       /\ mgr[p].bm25.raised
\* C28: in VoyagerIndexManager, no search returns an id that a remove was
\* called for and no unmark_deleted since; unmark_deleted of such an id returns
\* and makes a search return it again; remove and unmark_deleted change nothing
\* but the deleted mark of the id they are called for.
C28_SoftDelete ==
    [][\A p \in Managers :
          LET before == mgr[p].vector_index
              after == mgr'[p].vector_index
              call == mgr'[p].voyager
          IN  /\ \A id \in mgr'[p].vector_removed : \A query \in Texts, k \in 1..MaxDocs :
                    id \notin Elems(VectorSearchIds(after, query, k))
              /\ (call.op = "search" /\ ~call.raised)
                 => \A n \in 1..Len(call.ids) : call.ids[n] \notin mgr[p].vector_removed
              /\ call.op \in {"remove", "unmark_deleted"}
                 => /\ after.items = before.items
                    /\ after.deleted \ {call.id} = before.deleted \ {call.id}
              /\ (call.op = "unmark_deleted" /\ call.id \in mgr[p].vector_removed)
                 => /\ ~call.raised
                    /\ call.id \in Elems(VectorSearchIds(after, Text(1), MaxDocs))]_vars
\* a search has returned ids while another id is removed and not restored
C28_Witness ==
    \E p \in Managers :
       /\ mgr[p].voyager.op = "search"
       /\ mgr[p].voyager.ids # <<>>
       /\ mgr[p].vector_removed # {}
\* C27: a search on an empty index returns an empty result and does not raise:
\* BM25IndexManager.search returns two empty lists when the manager holds no
\* document or only tombstoned ones, and the search of a facade built on an
\* absent or empty index object returns an empty list.
C27_EmptyIndexEmptyResult ==
    /\ \A p \in Managers : \A query \in Queries : \A k \in Ks :
          LET ki == mgr[p].keyword_index
          IN  (\A i \in 0..(Len(ki.docs) - 1) : i \in ki.deleted_flags)
              => /\ BM25Search(ki, query, k) = <<>>
                 /\ BM25Scores(ki, query, k) = <<>>
    /\ blob[KwFile].kind \in {"absent", "empty"}
       => \A query \in Queries : \A k \in Ks :
             /\ ~KeywordSearchRaises(query, k)
             /\ KeywordSearchResults(query, k) = <<>>
    /\ blob[VecFile].kind \in {"absent", "empty"}
       => ~VectorSearchInitRaises
\* the reverse mapping that a manager built on the stored source map holds
PersistedReverse ==
    IF IsJson(blob[BlobFile]) THEN update_reverse_mapping(JsonLoads(blob[BlobFile]))
    ELSE EmptyMap

\* the chunk ids that the source map or the backend-id map, as stored or as
\* the manager holds them, registers
Registered(p) ==
    DOMAIN PersistedIdMap \cup DOMAIN PersistedBlobMap
    \cup DOMAIN mgr[p].id_map \cup DictKeys(mgr[p].mapping)

\* C29: when process_and_save_document has raised after its mapping_manager.add
\* returned chunks, no chunk id is registered for the document, neither in the
\* source map nor in the backend-id map.
C29_RollbackRemovesAll ==
    \A p \in Managers :
       (/\ mgr[p].doc.op = "queue"
        /\ mgr[p].doc.phase = "done"
        /\ mgr[p].doc.result = "failed"
        /\ mgr[p].doc.created # <<>>)
       => /\ get_chunk_ids_by_blob(mgr[p].reverse_mapping, DocContainer, DocName) = <<>>
          /\ get_chunk_ids_by_blob(PersistedReverse, DocContainer, DocName) = <<>>
          /\ Elems(mgr[p].doc.created) \cap Registered(p) = {}
\* C30: when process_and_save_document runs for a document that has chunks
\* registered, every one of these chunk ids has left the source map and the
\* backend-id map before mapping_manager.add is called, and once the call has
\* returned get_chunk_ids_by_blob gives exactly the chunk ids its add returned.
C30_ReprocessReplaces ==
    \A p \in Managers :
       LET d == mgr[p].doc
       IN  (d.op = "queue" /\ d.earlier # <<>>)
           => /\ (d.phase \in {"parse", "add"} \/ d.created # <<>>)
                 => Elems(d.earlier) \cap Registered(p) = {}
              /\ (d.phase = "done" /\ d.result \in {"processed", "unmarked"})
                 => /\ get_chunk_ids_by_blob(mgr[p].reverse_mapping, DocContainer,
                                             DocName) = d.created
                    /\ get_chunk_ids_by_blob(PersistedReverse, DocContainer,
                                             DocName) = d.created
\* a document that had chunks registered has been processed again
C30_Witness ==
    \E p \in Managers :
       /\ mgr[p].doc.op = "queue"
       /\ mgr[p].doc.phase = "done"
       /\ mgr[p].doc.result = "processed"
       /\ mgr[p].doc.earlier # <<>>
       /\ mgr[p].doc.created # <<>>
C32_OnlyTombstones ==
    [][\A p \in Managers :
          LET before == mgr[p].keyword_index
              after == mgr'[p].keyword_index
              call == mgr'[p].bm25
          IN  (call.op \in {"remove", "unmark_deleted"} /\ mgr'[p] # mgr[p] /\ before.index)
              => /\ after.docs = before.docs
                 /\ after.k1 = before.k1
                 /\ after.b = before.b
                 /\ (call.op = "remove" /\ call.ids[1] >= Len(before.docs))
                    => ~call.raised /\ after.deleted_flags = before.deleted_flags
                 /\ (call.op = "unmark_deleted" /\ call.ids[1] \notin before.deleted_flags)
                    => ~call.raised /\ after.deleted_flags = before.deleted_flags]_vars
\* C33: in get_client, a create_container that the store refuses because the
\* container is being deleted makes the call wait and try again while attempts
\* are left, and raise ResourceNotFoundError when none is left; any other error
\* of create_container is raised at once; a create_container that succeeds is
\* followed by the rest of the call, which then returns the client; and the
\* attempt after a wait is the next one of the same max_retries.
C33_BeingDeletedIsRetried ==
    [][\A p \in Managers :
          LET g == mgr[p].get_client
              h == mgr'[p].get_client
          IN  /\ (g.pc = "create" /\ h # g)
                 => /\ h.creates = g.creates + 1 /\ h.creates <= max_retries
                    /\ h.attempt = g.attempt
                    /\ (h.last = "being_deleted" /\ g.attempt < max_retries - 1)
                       => h.pc = "sleep" /\ h.result = "none"
                    /\ (h.last = "being_deleted" /\ g.attempt >= max_retries - 1)
                       => h.pc = "done" /\ h.result = "ResourceNotFoundError"
                    /\ h.last = "other" => h.pc = "done" /\ h.result = "AzureError"
                    /\ h.last = "created"
                       => /\ blob'[DbContainer].state = "present"
                          /\ IF g.blob_name = ""
                             THEN h.pc = "done" /\ h.result = "client"
                             ELSE h.pc = "blob" /\ h.result = "none"
              /\ (g.pc = "sleep" /\ h # g)
                 => h.pc = "check" /\ h.attempt = g.attempt + 1 /\ h.result = "none"
              /\ (g.pc = "blob" /\ h # g /\ blob[DbContainer].state = "present"
                  /\ g.create_if_not_exists)
                 => h.result = "client"]_vars
\* get_client has returned the client after a create_container was refused for
\* a container being deleted and a later one succeeded
C33_Witness ==
    \E p \in Managers :
       /\ mgr[p].get_client.pc = "done"
       /\ mgr[p].get_client.result = "client"
       /\ mgr[p].get_client.last = "created"
       /\ mgr[p].get_client.attempt > 0
       /\ mgr[p].get_client.creates > 1
\* C34: a run of index_queued_blobs in which the parser returned an empty list
\* ends with process_and_save_document having raised, and leaves the document
\* without the processed mark.
C34_EmptyParseFails ==
    [][\A p \in Managers :
          (/\ mgr[p].doc.op = "queue"
           /\ mgr[p].doc.texts = <<>>
           /\ mgr[p].doc.phase \notin {"get_metadata", "done"}
           /\ mgr'[p].doc.phase = "done")
          => /\ mgr'[p].doc.result = "failed"
             /\ ~("processed" \in DOMAIN Metadata(blob'[DocFile])
                  /\ Metadata(blob'[DocFile]).processed = "true")]_vars
\* C35: when nothing fails and nothing is held up, an add of a text list that is
\* not empty never finds, on its way to persisting a mapping file, that file
\* leased by the call itself (so it never backs off), and it reaches its
\* finally with the two leases it acquired at its start still active.
C35_NoWaitOnOwnLease ==
    \A p \in Managers :
       (/\ nfaults = 0 /\ npauses = 0
        /\ mgr[p].call.op = "add"
        /\ mgr[p].call.texts # <<>>)
       => /\ (/\ mgr[p].pc = "lease"
              /\ mgr[p].up.f \in MappingFiles
              /\ mgr[p].call.step \notin {"lease_idx", "lease_blob"})
             => /\ mgr[p].up.attempt = 0
                /\ ~(IsLeased(lease[mgr[p].up.f]) /\ lease[mgr[p].up.f].id.by = p)
          /\ mgr[p].pc = "cleanup_idx"
             => /\ WriteAccepted(lease[IdxFile], mgr[p].call.index_lease_id)
                /\ WriteAccepted(lease[BlobFile], mgr[p].call.blob_lease_id)
\* C36: no step lowers the stored allocator counter, and no step takes an entry
\* out of the stored backend-id map unless it is the write of a remove_mapping
\* of that chunk id.
C36_NoLostMappingState ==
    [][/\ PersistedCounter' >= PersistedCounter
       /\ \A c \in DOMAIN PersistedIdMap :
             c \in DOMAIN PersistedIdMap'
             \/ \E p \in Managers : /\ mgr[p].pc = "put"
                                    /\ mgr[p].up.f = IdxFile
                                    /\ mgr[p].call.op = "remove"
                                    /\ mgr[p].call.chunk_id = c]_vars
\* C37: when the store refuses the lease request of acquire_lease because the
\* object was leased after acquire_lease read its lease state, and attempts
\* are left, acquire_lease backs off and tries again: the error does not reach
\* the caller.
C37_RacedRequestRetried ==
    [][\A p \in Managers :
          (/\ mgr[p].pc = "grant"
           /\ ~CanGrant(lease[mgr[p].up.f])
           /\ mgr[p].up.attempt < max_retries - 1
           /\ mgr'[p] # mgr[p])
          => /\ mgr'[p].pc = "lease"
             /\ mgr'[p].up.f = mgr[p].up.f
             /\ mgr'[p].up.attempt = mgr[p].up.attempt + 1
             /\ mgr'[p].slp = retry_delay]_vars
\* C38: while no add or remove is running, the backend-id map and the source
\* map hold the same chunk ids, as stored and as the manager holds them.
C38_SameChunkIds ==
    (\A p \in Managers : mgr[p].pc = "idle")
    => /\ DOMAIN PersistedIdMap = DOMAIN PersistedBlobMap
       /\ \A p \in Managers : DOMAIN mgr[p].id_map = DictKeys(mgr[p].mapping)

\* remove(chunk_id) has looked the chunk up in the backend-id map, found no
\* entry and called no backend
RemoveOfUnregistered(p) ==
    /\ mgr[p].call.op = "remove"
    /\ mgr[p].pc # "idle"
    /\ mgr[p].call.step \in {"unmap_idx", "unmap_blob"}
    /\ mgr[p].call.backend_calls = {}

\* C39: a remove of a chunk id that has no entry in the backend-id map calls no
\* backend, changes neither mapping (stored or held), nor the counter, nor a
\* backend, and does not raise.
C39_RemoveUnregisteredIsNoOp ==
    [][\A p \in Managers :
          RemoveOfUnregistered(p)
          => /\ PersistedIdMap' = PersistedIdMap
             /\ PersistedBlobMap' = PersistedBlobMap
             /\ mgr'[p].id_map = mgr[p].id_map
             /\ mgr'[p].id_counter = mgr[p].id_counter
             /\ mgr'[p].mapping = mgr[p].mapping
             /\ mgr'[p].keyword_index = mgr[p].keyword_index
             /\ mgr'[p].vector_index = mgr[p].vector_index
             /\ mgr'[p].call.backend_calls = {}
             /\ mgr'[p].call.result # "raised"]_vars

\* C39 witness: the remove of an id that no chunk carries has returned without
\* a backend call or a write
C39_Witness ==
    /\ mgr[1].pc = "idle"
    /\ mgr[1].call.op = "remove"
    /\ mgr[1].call.result = "returned"
    /\ mgr[1].call.backend_calls = {}
    /\ mgr[1].call.writes = 0
    /\ mgr[1].call.chunk_id \notin DOMAIN PersistedIdMap
    /\ PersistedIdMap # EmptyMap

====
